---- MODULE Spec2Model ----
(***************************************************************************)
(* A model of the mTLS forwarding proxy: the token-bucket rate limiter     *)
(* (src/src/rate_limit.rs), the request pipeline (src/src/proxy.rs), the   *)
(* request log store (src/src/logging.rs), the audit log                   *)
(* (src/src/audit.rs) and the configuration manager                        *)
(* (src/src/config_manager.rs, src/src/config.rs).                         *)
(*                                                                         *)
(* The specifications share the definitions:                              *)
(*   SpecRL     the rate limiter alone, with the arithmetic of check_async;*)
(*   SpecLoad   the rate limiter under sustained load;                     *)
(*   SpecGuard  concurrent calls of check_async under its two locks;       *)
(*   SpecCtl    the control plane alone;                                   *)
(*   SpecCfg    the configuration manager behind its three handlers;       *)
(*   SpecDel    delete_certificate called with any filename;               *)
(*   SpecLock   update_config beside get_current_config;                   *)
(*   SpecLog    the request pipeline alone;                                *)
(*   SpecOne    the request pipeline for a single request;                 *)
(*   SpecRoute  the pipeline for requests of several methods and paths;    *)
(*   SpecHdr    the headers of the target request;                         *)
(*   SpecUri    one request with and without a query string;               *)
(*   SpecErr    handle_rejection alone;                                    *)
(*   SpecSearch the request log store and search_logs;                     *)
(*   SpecClean  the request log store and cleanup_old_logs;                *)
(*   SpecAudit  the audit table and get_audit_logs;                        *)
(*   SpecAppend concurrent calls of log_event;                             *)
(*   SpecStop   the server, its connections and the shutdown signal;       *)
(*   Spec       the request pipeline together with the control plane.      *)
(***************************************************************************)
EXTENDS Integers, Sequences, FiniteSets, TLC

----------------------------------------------------------------------------
(* Bounds of the model. *)

\* Width in bits of the unsigned word the bucket is computed in.  The code
\* uses u32; the model keeps the same arithmetic (saturating cast, wrapping
\* or checked addition) on a narrower word so that the values stay small.
U32Bits == 4

\* Clock ticks per second: elapsed time is measured in ticks, so that
\* elapsed * rps can be a fraction of a token.
TicksPerSec == 2

\* Largest requests_per_second and burst_size the limiter is configured with.
MaxRps == 3
MaxBurst == 3

\* Handler tasks of proxy_handler the model runs, control-plane requests
\* handled beside them (MaxOps) and on their own (MaxCtlOps, and MaxCfgOps
\* for the configuration manager of SpecCfg), seconds the
\* model lets pass (MaxLogClock in SpecLog), and distinct file contents.
MaxReq == 2
MaxOps == 1
MaxCtlOps == 3
MaxCfgOps == 2
MaxClock == 2
MaxLogClock == 1
MaxContent == 5

\* Rows of requests the log store of SpecSearch holds.
MaxSearchRows == 2
\* Rows of the audit table when get_audit_logs is called alone.
MaxAuditRows == 3
\* Calls of log_event that run concurrently.
MaxAuditTasks == 2
\* Calls of check_async that run concurrently.
MaxCheckTasks == 2
\* Inbound connections the server has open at a time, and the seconds that
\* are counted after the shutdown signal.
MaxOpen == 4
MaxGrace == 3

\* Largest target.timeout_secs (in ticks) and server.max_connections a
\* configuration update carries.
MaxTimeout == 2
MaxConn == 1

\* Longest interval of sustained load the model follows, in ticks.
MaxLoadTicks == 4

\* Most header lines an inbound request carries.
MaxHeaders == 2

U32Max == 2^U32Bits - 1

\* Beyond this many ticks every elapsed time gives the same saturated refill
\* (for rps >= 1), so the elapsed time is kept up to this value.
MaxElapsed == TicksPerSec * (U32Max + 1)

Min(a, b) == IF a < b THEN a ELSE b

----------------------------------------------------------------------------
VARIABLES
    \* RateLimiter
    rps,            \* config.requests_per_second
    burst,          \* config.burst_size
    tokens,         \* *self.tokens
    rlElapsed,      \* Instant::now() - *self.last_refill, in ticks
    overflowChecks, \* the build: TRUE when integer overflow panics (debug
                    \* profile), FALSE when it wraps (release profile)
    \* history of the calls to check_async
    lastResult,     \* result of the last call: "none", "ok", "rejected", "panic"
    lastIdle,       \* the last call came after an idle time >= burst / rps
    runCalls,       \* calls made since the bucket was last full, no refill between
    runValid,       \* runCalls counts such a run
    load            \* an interval of sustained load that starts with an empty
                    \* bucket: its length in ticks, the calls offered and
                    \* admitted in it, whether a call came since the last tick

VARIABLES
    \* ConfigManager and the files it manages
    config,         \* *self.config, the in-memory snapshot
    diskConfig,     \* the TOML file at config_path (<<>> before a save)
    fs,             \* content of each file (0: the file does not exist)
    fmode,          \* permission bits of each file ("none": no such file)
    \* AppState, built once by ProxyServer::start
    state,
    \* AuditLogger
    auditRows,      \* the audit_logs table: the event_type of each row
    \* history of the control plane
    ctlOps,         \* control-plane requests handled
    okCount,        \* per kind, the requests answered with success
    lastOp,         \* the last control-plane request and its outcome
    lastUpdate,     \* the patch of the last successful update_config
    lastUpload      \* the kind and content of the last successful
                    \* upload_certificate

rlVars == <<rps, burst, tokens, rlElapsed, overflowChecks>>
rlHist == <<lastResult, lastIdle, runCalls, runValid, load>>
cfgVars == <<config, diskConfig, fs, fmode, state>>
ctlHist == <<ctlOps, okCount, lastOp, lastUpdate, lastUpload>>
ctlVars == <<cfgVars, auditRows, ctlHist>>

VARIABLES
    \* LogManager: the two tables of the request log database
    requests,       \* rows of requests
    responses,      \* rows of responses
    foreignKeys,    \* the build: whether the engine enforces FOREIGN KEY
    \* the handler tasks of proxy_handler
    nextId,         \* the next fresh request id (Uuid::new_v4)
    now,            \* seconds since startup
    pc,             \* where each handler task is
    rq,             \* what each handler task holds
    \* Metrics
    metrics         \* the counters and gauges

dataVars == <<requests, responses, foreignKeys, nextId, now, pc, rq, metrics>>

VARIABLES
    \* the RwLock of the snapshot and the tasks that take it
    cfgLock,        \* "free", or "write" while update_config holds the guard
    updTask,        \* the task in update_config: where it is, its patch and
                    \* the snapshot it found
    seen            \* what the last get_current_config returned

lockVars == <<cfgLock, updTask, seen>>

VARIABLES
    \* handle_rejection, taken alone
    rejection,      \* the combination of rejections it is called with
    answer          \* the status and the code of the response it built

errVars == <<rejection, answer>>

VARIABLES
    \* LogManager::search_logs
    found           \* the arguments and the result of the call, once made

VARIABLES
    \* AuditLogger::get_audit_logs
    fetched,        \* the arguments and the result of the call, once made
    \* concurrent calls of AuditLogger::log_event
    auditTasks,     \* where each call is, its event and what it returned
    auditLock,      \* the connection that holds the write lock of the
                    \* database file (0: none)
    \* ProxyServer::start
    server          \* the phase of the server, its inbound connections and
                    \* the seconds since the shutdown signal

VARIABLES
    \* concurrent calls of RateLimiter::check_async
    rlTasks,        \* where each call is, what it read and what it returned
    rlGuards        \* the task that holds the write guard of tokens and
                    \* of last_refill (0: none)

moreVars == <<rlTasks, rlGuards>>

extVars == <<fetched, auditTasks, auditLock, server, moreVars>>

auxVars == <<lockVars, errVars, found, extVars>>

vars == <<rlVars, rlHist, ctlVars, dataVars, auxVars>>

----------------------------------------------------------------------------
(* RateLimiter::check_async *)

\* (x as u32) for a non-negative float x: the cast saturates.
SaturatingU32(x) == IF x > U32Max THEN U32Max ELSE x

\* (elapsed.as_secs_f64() * requests_per_second as f64) as u32
TokensToAdd(el, r) == SaturatingU32((el * r) \div TicksPerSec)

\* a + b on the unsigned word when overflow checks are off
WrappingAdd(a, b) == (a + b) % (U32Max + 1)

\* check_async with the decrement of the admitted call left out.
CheckAsyncNoDecrement(tok, el, r, b, checked) ==
    LET add == TokensToAdd(el, r)
        t1 == IF add > 0 THEN Min(WrappingAdd(tok, add), b) ELSE tok
        e1 == IF add > 0 THEN 0 ELSE el
    IN  [tokens |-> t1, elapsed |-> e1, added |-> add, full |-> (t1 = b),
         result |-> IF t1 > 0 THEN "ok" ELSE "rejected"]

\* One call of check_async on a bucket holding tok tokens, el ticks after
\* last_refill.  The result names the new bucket and the outcome.
CheckAsync(tok, el, r, b, checked) ==
    LET add == TokensToAdd(el, r)
    IN  IF add > 0 /\ tok + add > U32Max /\ checked
        THEN \* "attempt to add with overflow": the task unwinds, both write
             \* guards are dropped, nothing was assigned
             [tokens |-> tok, elapsed |-> el, added |-> add, full |-> FALSE,
              result |-> "panic"]
        ELSE LET t1 == IF add > 0 THEN Min(WrappingAdd(tok, add), b) ELSE tok
                 e1 == IF add > 0 THEN 0 ELSE el
             IN  IF t1 > 0
                 THEN [tokens |-> t1 - 1, elapsed |-> e1, added |-> add,
                       full |-> (t1 = b), result |-> "ok"]
                 ELSE [tokens |-> t1, elapsed |-> e1, added |-> add,
                       full |-> (t1 = b), result |-> "rejected"]

\* RateLimiter::new
RateLimiterNew(r, b) ==
    /\ rps = r
    /\ burst = b
    /\ tokens = b
    /\ rlElapsed = 0

NoLoad == [open |-> FALSE, ticks |-> 0, offered |-> 0, admitted |-> 0,
           called |-> FALSE]

HistInit ==
    /\ lastResult = "none"
    /\ lastIdle = FALSE
    /\ runCalls = 0
    /\ runValid = TRUE
    /\ load = NoLoad

\* The history of a call whose outcome is res, made el ticks after last_refill.
HistAfter(res, el) ==
    /\ lastResult' = res.result
    /\ lastIdle' = (rps > 0 /\ el * rps >= burst * TicksPerSec)
    /\ IF res.added = 0
       THEN /\ runCalls' = Min(runCalls + 1, MaxBurst + 2)
            /\ runValid' = runValid
       ELSE /\ runCalls' = 1
            /\ runValid' = (res.result # "panic" /\ res.full)

----------------------------------------------------------------------------
(* Config (src/src/config.rs) and the files the proxy reads and writes *)

\* A URL is kept as its scheme and the rest; the empty string has neither.
EmptyUrl == [scheme |-> "", host |-> ""]
Urls == {[scheme |-> "https", host |-> "a"], [scheme |-> "https", host |-> "b"],
         [scheme |-> "http", host |-> "a"], EmptyUrl}

\* base_url.starts_with("https://")
StartsWithHttps(u) == u.scheme = "https"

\* The files: the certificate and key the proxy was started with, and the
\* canonical files of the certificates directory.
BootCert == "boot/client.crt"
BootKey == "boot/client.key"
CertNames == {"client.crt", "client.key", "ca.crt"}
\* self.certs_dir.join(filename)
CertsDirJoin(name) == "certs/" \o name
Paths == {BootCert, BootKey} \cup {CertsDirJoin(n) : n \in CertNames}

\* File contents are numbered from 1; the PEM marker a content carries.
Contents == 1..MaxContent
MarkerOf(c) ==
    CASE c % 4 = 1 -> "CERTIFICATE"
      [] c % 4 = 2 -> "PRIVATE KEY"
      [] c % 4 = 3 -> "RSA PRIVATE KEY"
      [] OTHER     -> "none"

\* path.exists()
Exists(files, p) == files[p] # 0

\* Config::validate, on the fields that change after startup (the other
\* server and logging fields keep the values validated by Config::load).
Validate(cfg, files) ==
    /\ cfg.max_connections # 0
    /\ Exists(files, cfg.client_cert_path)
    /\ Exists(files, cfg.client_key_path)
    /\ (cfg.ca_cert_path # "none" => Exists(files, cfg.ca_cert_path))
    /\ cfg.base_url # EmptyUrl
    /\ StartsWithHttps(cfg.base_url)
    /\ cfg.timeout_secs # 0

\* The material TlsClient::new loads from the paths of cfg.
Material(cfg, files) ==
    [cert |-> files[cfg.client_cert_path],
     key  |-> files[cfg.client_key_path],
     ca   |-> IF cfg.ca_cert_path = "none" THEN 0 ELSE files[cfg.ca_cert_path]]

\* The configuration Config::load has validated at startup.
BootConfig ==
    [base_url |-> [scheme |-> "https", host |-> "a"],
     timeout_secs |-> 1,
     max_connections |-> 1,
     client_cert_path |-> BootCert,
     client_key_path |-> BootKey,
     ca_cert_path |-> "none"]

BootFiles == [p \in Paths |-> IF p = BootCert THEN 1 ELSE IF p = BootKey THEN 2 ELSE 0]

\* The permission bits of the files at startup, and those of a file that
\* fs::write creates (0o666 under the usual umask of 022).
BootModes ==
    [p \in Paths |-> IF p = BootCert THEN "0644"
                     ELSE IF p = BootKey THEN "0600" ELSE "none"]
DefaultMode == "0644"

\* ProxyServer::new and ProxyServer::start: the TLS client is built from the
\* startup configuration and AppState copies target_url and the timeout.
AppStateNew(cfg, files) ==
    [tls_client |-> Material(cfg, files),
     target_url |-> cfg.base_url,
     timeout_duration |-> cfg.timeout_secs]

----------------------------------------------------------------------------
(* ConfigManager (src/src/config_manager.rs) *)

UpdateRequests ==
    [target_url : Urls, timeout_secs : 0..MaxTimeout, max_connections : 0..MaxConn]

\* toml::to_string_pretty(config): the document has one table for each
\* section, and a field that is None has no key.
ToToml(cfg) ==
    [server |-> [max_connections |-> cfg.max_connections],
     tls |-> IF cfg.ca_cert_path = "none"
             THEN [client_cert_path |-> cfg.client_cert_path,
                   client_key_path |-> cfg.client_key_path]
             ELSE [client_cert_path |-> cfg.client_cert_path,
                   client_key_path |-> cfg.client_key_path,
                   ca_cert_path |-> cfg.ca_cert_path],
     target |-> [base_url |-> cfg.base_url,
                 timeout_secs |-> cfg.timeout_secs]]

\* The Config that deserializing the document gives (Config::load): a key
\* that is missing from the tls table leaves the Option at None.
FromToml(doc) ==
    [base_url |-> doc.target.base_url,
     timeout_secs |-> doc.target.timeout_secs,
     max_connections |-> doc.server.max_connections,
     client_cert_path |-> doc.tls.client_cert_path,
     client_key_path |-> doc.tls.client_key_path,
     ca_cert_path |-> IF "ca_cert_path" \in DOMAIN doc.tls
                      THEN doc.tls.ca_cert_path ELSE "none"]

\* update_config that writes the file before it patches the snapshot.
UpdateConfigSaveFirst(cfg, disk, files, u, diskOk) ==
    LET patched == [cfg EXCEPT !.base_url = u.target_url,
                               !.timeout_secs = u.timeout_secs,
                               !.max_connections = u.max_connections]
    IN  IF ~Validate(patched, files)
        THEN [config |-> patched, disk |-> disk, result |-> "ConfigValidationFailed"]
        ELSE IF ~diskOk
        THEN [config |-> patched, disk |-> disk, result |-> "FileSystemError"]
        ELSE [config |-> patched, disk |-> <<ToToml(cfg)>>, result |-> "ok"]

\* ConfigManager::update_config: the outcome of the call with patch u, where
\* diskOk tells whether save_config_to_disk succeeds.
UpdateConfig(cfg, disk, files, u, diskOk) ==
    LET patched == [cfg EXCEPT !.base_url = u.target_url,
                               !.timeout_secs = u.timeout_secs,
                               !.max_connections = u.max_connections]
    IN  IF ~Validate(patched, files)
        THEN [config |-> patched, disk |-> disk, result |-> "ConfigValidationFailed"]
        ELSE IF ~diskOk
        THEN [config |-> patched, disk |-> disk, result |-> "FileSystemError"]
        ELSE [config |-> patched, disk |-> <<ToToml(patched)>>, result |-> "ok"]

\* validate_certificate_content that accepts any content.
ValidateCertificateContentAny(kind, content) == TRUE

\* ConfigManager::validate_certificate_content
ValidateCertificateContent(kind, content) ==
    IF kind = "key"
    THEN MarkerOf(content) \in {"PRIVATE KEY", "RSA PRIVATE KEY"}
    ELSE MarkerOf(content) = "CERTIFICATE"

CertificateTypes == {"client", "key", "ca"}

\* The canonical file name of a certificate kind.
CanonicalName(kind) ==
    CASE kind = "client" -> "client.crt"
      [] kind = "key"    -> "client.key"
      [] kind = "ca"     -> "ca.crt"

\* ConfigManager::update_config_certificate_paths
UpdateConfigCertificatePaths(cfg, files) ==
    [cfg EXCEPT !.client_cert_path = CertsDirJoin("client.crt"),
                !.client_key_path = CertsDirJoin("client.key"),
                !.ca_cert_path = IF Exists(files, CertsDirJoin("ca.crt"))
                                 THEN CertsDirJoin("ca.crt") ELSE @]

\* ConfigManager::set_certificate_permissions
CertificateMode(kind) == IF kind = "key" THEN "0600" ELSE "0644"

\* The outcome of upload_certificate, for the path it writes to: failAt names
\* the file-system call that fails ("none", "mkdir", "write" or "chmod").
\* fs::write keeps the permission bits of a file that exists.
UploadFailures == {"none", "mkdir", "write", "chmod"}
UploadTo(path, cfg, files, modes, upload, failAt) ==
    LET written == [files EXCEPT ![path] = upload.content]
        created == [modes EXCEPT
                      ![path] = IF Exists(files, path) THEN @ ELSE DefaultMode]
        chmoded == [modes EXCEPT ![path] = CertificateMode(upload.cert_type)]
    IN  IF ~ValidateCertificateContent(upload.cert_type, upload.content)
        THEN [config |-> cfg, fs |-> files, fmode |-> modes,
              result |-> "CertificateInvalid"]
        ELSE IF failAt \in {"mkdir", "write"}
        THEN [config |-> cfg, fs |-> files, fmode |-> modes,
              result |-> "FileSystemError"]
        ELSE IF failAt = "chmod"
        THEN [config |-> cfg, fs |-> written, fmode |-> created,
              result |-> "FilePermissionDenied"]
        ELSE [config |-> UpdateConfigCertificatePaths(cfg, written),
              fs |-> written, fmode |-> chmoded, result |-> "ok"]

\* upload_certificate that stores the file under the name the caller gave.
UploadCertificateAsNamed(cfg, files, modes, upload, failAt) ==
    UploadTo(CertsDirJoin(upload.filename), cfg, files, modes, upload, failAt)

\* ConfigManager::upload_certificate, for the CertificateUpload upload
UploadCertificate(cfg, files, modes, upload, failAt) ==
    UploadTo(CertsDirJoin(CanonicalName(upload.cert_type)),
             cfg, files, modes, upload, failAt)

\* A path is kept as the sequence of its components, "/" for the root.
\* The working directory of the proxy, its directories, and certs_dir.
Cwd == <<"/", "srv">>
Dirs == {<<"/">>, Cwd, Cwd \o <<"certs">>, Cwd \o <<"boot">>}
CertsDir == <<"certs">>

\* PathBuf::join: an absolute path replaces the base.
PathBufJoin(base, path) ==
    IF path # <<>> /\ path[1] = "/" THEN path ELSE base \o path

\* The place the file system finds for a path, component by component:
\* ".." is the parent of a directory (the root is its own parent); <<>>
\* when a component that is not the last is not a directory.
RECURSIVE Walk(_, _)
Walk(at, rest) ==
    IF rest = <<>> THEN at
    ELSE IF at \notin Dirs THEN <<>>
    ELSE LET next == IF Head(rest) # ".." THEN Append(at, Head(rest))
                     ELSE IF Len(at) > 1 THEN SubSeq(at, 1, Len(at) - 1)
                     ELSE at
         IN  Walk(next, Tail(rest))

Resolve(path) ==
    IF path # <<>> /\ path[1] = "/" THEN Walk(<<"/">>, Tail(path))
    ELSE Walk(Cwd, path)

\* The files of the model that are at a place (one or none).
FilesAt(place) ==
    {f \in {BootCert, BootKey} :
        place = Cwd \o <<"boot">>
                    \o <<IF f = BootCert THEN "client.crt" ELSE "client.key">>}
    \cup {CertsDirJoin(n) : n \in {m \in CertNames :
                                      place = Cwd \o CertsDir \o <<m>>}}

\* delete_certificate that fails on a file that is absent.
DeleteCertificateStrict(files, modes, filename, rmOk) ==
    LET at == FilesAt(Resolve(PathBufJoin(CertsDir, filename)))
    IN  IF (\E path \in at : Exists(files, path)) /\ rmOk
        THEN [fs |-> [p \in DOMAIN files |-> IF p \in at THEN 0 ELSE files[p]],
              fmode |-> [p \in DOMAIN modes |->
                           IF p \in at THEN "none" ELSE modes[p]],
              result |-> "ok"]
        ELSE [fs |-> files, fmode |-> modes, result |-> "error"]

\* ConfigManager::delete_certificate, for the filename given as a path:
\* self.certs_dir.join(filename), then exists() and remove_file, which
\* fails on a directory and when rmOk does not hold.
DeleteCertificate(files, modes, filename, rmOk) ==
    LET place == Resolve(PathBufJoin(CertsDir, filename))
        at == FilesAt(place)
    IN  IF place \in Dirs
        THEN [fs |-> files, fmode |-> modes, result |-> "error"]
        ELSE IF \E path \in at : Exists(files, path)
        THEN IF rmOk
             THEN [fs |-> [p \in DOMAIN files |->
                              IF p \in at THEN 0 ELSE files[p]],
                   fmode |-> [p \in DOMAIN modes |->
                                IF p \in at THEN "none" ELSE modes[p]],
                   result |-> "ok"]
             ELSE [fs |-> files, fmode |-> modes, result |-> "error"]
        ELSE [fs |-> files, fmode |-> modes, result |-> "ok"]

----------------------------------------------------------------------------
(* update_config and get_current_config, statement by statement, under the
   RwLock of the snapshot (src/src/config_manager.rs) *)

NoTask == [pc |-> "idle", u |-> <<>>, before |-> BootConfig]

LockInit ==
    /\ cfgLock = "free"
    /\ updTask = NoTask
    /\ seen = <<>>

\* A call of log_event that has not started.
NoAuditTask ==
    [pc |-> "idle", event_type |-> "", waited |-> FALSE, base |-> <<>>,
     result |-> ""]

\* The server that warp::serve(routes).bind_with_graceful_shutdown starts.
ServerNew ==
    [phase |-> "serving", conns |-> [c \in 1..MaxOpen |-> "closed"],
     sinceSignal |-> 0]

\* A call of check_async that has not started.
NoCheck == [pc |-> "idle", read |-> <<>>, result |-> ""]

ExtInit ==
    /\ rlTasks = [t \in 1..MaxCheckTasks |-> NoCheck]
    /\ rlGuards = [tokens |-> 0, last_refill |-> 0]
    /\ fetched = <<>>
    /\ server = ServerNew
    /\ auditTasks = [t \in 1..MaxAuditTasks |-> NoAuditTask]
    /\ auditLock = 0

AuxInit ==
    /\ LockInit
    /\ ExtInit
    /\ rejection = [known |-> {}, proxy |-> {}, app |-> {}]
    /\ answer = <<>>
    /\ found = <<>>

\* A read that does not wait for the writer.
RwLockReadUnguarded(lock) == TRUE

\* RwLock::read is granted while no task holds the write guard.
RwLockRead(lock) == lock # "write"

\* RwLock::write is granted while no task holds a guard; a reader holds
\* its guard only for the clone.
RwLockWrite(lock) == lock = "free"

\* get_current_config: self.config.read().await.clone()
GetCurrentConfig ==
    /\ RwLockRead(cfgLock)
    /\ seen' = <<config>>
    /\ UNCHANGED <<rlVars, rlHist, ctlVars, dataVars, cfgLock, updTask, errVars, found, extVars>>

\* update_config: let mut config = self.config.write().await
UpdateConfigLock(u) ==
    /\ updTask.pc = "idle"
    /\ RwLockWrite(cfgLock)
    /\ cfgLock' = "write"
    /\ updTask' = [pc |-> "base_url", u |-> <<u>>, before |-> config]
    /\ UNCHANGED <<rlVars, rlHist, ctlVars, dataVars, seen, errVars, found, extVars>>

\* update_config: the three assignments, one at a time
UpdateConfigAssign ==
    /\ updTask.pc \in {"base_url", "timeout_secs", "max_connections"}
    /\ LET u == updTask.u[1]
       IN  CASE updTask.pc = "base_url" ->
                  /\ config' = [config EXCEPT !.base_url = u.target_url]
                  /\ updTask' = [updTask EXCEPT !.pc = "timeout_secs"]
             [] updTask.pc = "timeout_secs" ->
                  /\ config' = [config EXCEPT !.timeout_secs = u.timeout_secs]
                  /\ updTask' = [updTask EXCEPT !.pc = "max_connections"]
             [] updTask.pc = "max_connections" ->
                  /\ config' = [config EXCEPT
                                   !.max_connections = u.max_connections]
                  /\ updTask' = [updTask EXCEPT !.pc = "validate"]
    /\ UNCHANGED <<rlVars, rlHist, diskConfig, fs, fmode, state, auditRows,
                   ctlHist, dataVars, cfgLock, seen, errVars, found, extVars>>

\* update_config: config.validate(); an error returns and drops the guard
UpdateConfigValidate ==
    /\ updTask.pc = "validate"
    /\ IF Validate(config, fs)
       THEN /\ updTask' = [updTask EXCEPT !.pc = "save"]
            /\ UNCHANGED cfgLock
       ELSE /\ updTask' = [updTask EXCEPT !.pc = "idle"]
            /\ cfgLock' = "free"
    /\ UNCHANGED <<rlVars, rlHist, ctlVars, dataVars, seen, errVars, found, extVars>>

\* update_config: save_config_to_disk, and the return that drops the guard
UpdateConfigSave(diskOk) ==
    /\ updTask.pc = "save"
    /\ diskConfig' = IF diskOk THEN <<ToToml(config)>> ELSE diskConfig
    /\ updTask' = [updTask EXCEPT !.pc = "idle"]
    /\ cfgLock' = "free"
    /\ UNCHANGED <<rlVars, rlHist, config, fs, fmode, state, auditRows,
                   ctlHist, dataVars, seen, errVars, found, extVars>>

----------------------------------------------------------------------------
(* create_routes (src/src/proxy.rs) and handle_rejection
   (src/src/error_handler.rs) *)

\* A path is the sequence of its segments.  In a route, the segment
\* "{String}" stands for a String parameter of warp::path!.
ControlRoutes ==
    {[method |-> "GET", path |-> <<"ui">>],
     [method |-> "GET", path |-> <<"ui", "dashboard">>],
     [method |-> "GET", path |-> <<"ui", "config">>],
     [method |-> "GET", path |-> <<"ui", "logs">>],
     [method |-> "GET", path |-> <<"ui", "audit">>],
     [method |-> "GET", path |-> <<"ui", "health">>],
     [method |-> "GET", path |-> <<"ui", "api", "logs">>],
     [method |-> "GET", path |-> <<"ui", "api", "stats">>],
     [method |-> "GET", path |-> <<"ui", "api", "config", "current">>],
     [method |-> "POST", path |-> <<"ui", "api", "config", "update">>],
     [method |-> "POST", path |-> <<"ui", "api", "config", "validate">>],
     [method |-> "POST", path |-> <<"ui", "api", "certificates", "upload">>],
     [method |-> "GET", path |-> <<"ui", "api", "certificates", "list">>],
     [method |-> "DELETE",
      path |-> <<"ui", "api", "certificates", "delete", "{String}">>],
     [method |-> "GET", path |-> <<"ui", "api", "audit", "logs">>],
     [method |-> "GET", path |-> <<"ui", "api", "audit", "stats">>],
     [method |-> "GET", path |-> <<"metrics">>],
     [method |-> "GET", path |-> <<"health">>]}

\* warp::path!: every segment matches and the path ends with the pattern.
PathMatches(pattern, path) ==
    /\ Len(pattern) = Len(path)
    /\ \A i \in 1..Len(pattern) :
          pattern[i] = "{String}" \/ pattern[i] = path[i]

\* The filter that answers a request with a well-formed body: the first
\* control-plane route whose path and method match, and proxy_route, which
\* matches every request, when there is none.
RouteOf(method, path) ==
    IF \E route \in ControlRoutes :
           route.method = method /\ PathMatches(route.path, path)
    THEN "control" ELSE "proxy_handler"

\* enum ErrorCode
ErrorCodes ==
    {"ConfigValidationFailed", "ConfigUpdateFailed", "ConfigLoadFailed",
     "CertificateUploadFailed", "CertificateDeleteFailed",
     "CertificateNotFound", "CertificateInvalid", "CertificateParseError",
     "FileNotFound", "FilePermissionDenied", "FileSystemError", "FileTooLarge",
     "ConnectionFailed", "Timeout", "RateLimitExceeded", "RequestTooLarge",
     "DatabaseError", "AuditLogError",
     "ValidationError", "InvalidInput", "MissingRequiredField",
     "InternalError", "SerializationError", "DeserializationError",
     "Unauthorized", "Forbidden", "NotFound", "EndpointNotFound"}

\* impl fmt::Display for ErrorCode
ErrorCodeToString(code) ==
    CASE code = "ConfigValidationFailed"  -> "CONFIG_VALIDATION_FAILED"
      [] code = "ConfigUpdateFailed"      -> "CONFIG_UPDATE_FAILED"
      [] code = "ConfigLoadFailed"        -> "CONFIG_LOAD_FAILED"
      [] code = "CertificateUploadFailed" -> "CERTIFICATE_UPLOAD_FAILED"
      [] code = "CertificateDeleteFailed" -> "CERTIFICATE_DELETE_FAILED"
      [] code = "CertificateNotFound"     -> "CERTIFICATE_NOT_FOUND"
      [] code = "CertificateInvalid"      -> "CERTIFICATE_INVALID"
      [] code = "CertificateParseError"   -> "CERTIFICATE_PARSE_ERROR"
      [] code = "FileNotFound"            -> "FILE_NOT_FOUND"
      [] code = "FilePermissionDenied"    -> "FILE_PERMISSION_DENIED"
      [] code = "FileSystemError"         -> "FILE_SYSTEM_ERROR"
      [] code = "FileTooLarge"            -> "FILE_TOO_LARGE"
      [] code = "ConnectionFailed"        -> "CONNECTION_FAILED"
      [] code = "Timeout"                 -> "TIMEOUT"
      [] code = "RateLimitExceeded"       -> "RATE_LIMIT_EXCEEDED"
      [] code = "RequestTooLarge"         -> "REQUEST_TOO_LARGE"
      [] code = "DatabaseError"           -> "DATABASE_ERROR"
      [] code = "AuditLogError"           -> "AUDIT_LOG_ERROR"
      [] code = "ValidationError"         -> "VALIDATION_ERROR"
      [] code = "InvalidInput"            -> "INVALID_INPUT"
      [] code = "MissingRequiredField"    -> "MISSING_REQUIRED_FIELD"
      [] code = "InternalError"           -> "INTERNAL_ERROR"
      [] code = "SerializationError"      -> "SERIALIZATION_ERROR"
      [] code = "DeserializationError"    -> "DESERIALIZATION_ERROR"
      [] code = "Unauthorized"            -> "UNAUTHORIZED"
      [] code = "Forbidden"               -> "FORBIDDEN"
      [] code = "NotFound"                -> "NOT_FOUND"
      [] code = "EndpointNotFound"        -> "ENDPOINT_NOT_FOUND"

\* enum AppError: an error is the name of its variant with the code it
\* carries.  config_error, certificate_error, filesystem_error,
\* network_error, database_error and internal_error take any code;
\* validation_error sets the code ValidationError.
AppErrorVariants ==
    {"Config", "Certificate", "FileSystem", "Network", "Database",
     "Validation", "Internal"}
AppError(variant, code) == [variant |-> variant, code |-> code]
AppErrors ==
    {AppError(v, c) : v \in AppErrorVariants \ {"Validation"}, c \in ErrorCodes}
        \cup {AppError("Validation", "ValidationError")}

\* AppError::status_code
StatusCode(e) ==
    CASE e.variant = "Config"      -> 400
      [] e.variant = "Certificate" -> 400
      [] e.variant = "FileSystem"  -> 500
      [] e.variant = "Network"     -> 502
      [] e.variant = "Database"    -> 500
      [] e.variant = "Validation"  -> 400
      [] e.variant = "Internal"    -> 500

\* The rejections of the control-plane routes that a request collects on its
\* way to proxy_route: a route whose path does not match rejects with not
\* found, which a combination with any other rejection drops; a route whose
\* path matches and whose method does not rejects with MethodNotAllowed.
ControlRejections(method, path) ==
    IF \E route \in ControlRoutes :
           PathMatches(route.path, path) /\ route.method # method
    THEN {"MethodNotAllowed"} ELSE {}

\* A combination of rejections: the rejections of warp's own filters
\* (known), the ProxyError and the AppError rejections of the handlers.
\* The rejection that recover hands to handle_rejection when proxy_handler
\* rejects the request with the ProxyError cause: the combination of all
\* of them.
Rejection(req, cause) ==
    [known |-> ControlRejections(req.method, req.path),
     proxy |-> {cause}, app |-> {}]

\* The rejection of a request whose control-plane handler, having read the
\* body, rejects with the AppError e: the routes after it are tried, and
\* warp::body::bytes() of proxy_route rejects a body that was taken.
RejectionOfHandler(method, path, e) ==
    [known |-> ControlRejections(method, path)
                   \cup {"BodyConsumedMultipleTimes"},
     proxy |-> {}, app |-> {e}]

\* The rejection of a request that no control-plane route takes and that
\* a filter of proxy_route rejects with the known rejection cause.
RejectionOfFilter(req, cause) ==
    [known |-> ControlRejections(req.method, req.path) \cup {cause},
     proxy |-> {}, app |-> {}]

\* handle_rejection: the status and the code of the error response, for a
\* combination err of rejections (the empty one is not found).  The tests
\* are made in this order, and find looks through the whole combination.
\* Every response it builds carries the request id it generated.
HandleRejection(err) ==
    IF err.known = {} /\ err.proxy = {} /\ err.app = {}
    THEN [status |-> 404, code |-> ErrorCodeToString("NotFound")]
    ELSE IF "MethodNotAllowed" \in err.known
    THEN [status |-> 405, code |-> ErrorCodeToString("InvalidInput")]
    ELSE IF "PayloadTooLarge" \in err.known
    THEN [status |-> 413, code |-> ErrorCodeToString("RequestTooLarge")]
    ELSE IF err.app # {}
    THEN LET app_error == CHOOSE e \in err.app : TRUE
         IN  [status |-> StatusCode(app_error),
              code |-> ErrorCodeToString(app_error.code)]
    ELSE IF "RateLimitExceeded" \in err.proxy
    THEN [status |-> 429, code |-> ErrorCodeToString("RateLimitExceeded")]
    ELSE IF "RequestTooLarge" \in err.proxy
    THEN [status |-> 413, code |-> ErrorCodeToString("RequestTooLarge")]
    ELSE IF "ForwardError" \in err.proxy
    THEN [status |-> 502, code |-> ErrorCodeToString("ConnectionFailed")]
    ELSE IF "BodyReadError" \in err.proxy
    THEN [status |-> 400, code |-> ErrorCodeToString("InvalidInput")]
    ELSE [status |-> 500, code |-> ErrorCodeToString("InternalError")]

----------------------------------------------------------------------------
(* AuditLogger (src/src/audit.rs) and the control-plane handlers
   (src/src/proxy.rs) *)

EventKinds == {"config_update", "certificate_upload", "certificate_delete"}

\* AuditLogger::log_event: one row is inserted, unless the insert fails.
LogEvent(rows, kind, dbOk) ==
    IF dbOk THEN [rows |-> Append(rows, kind), result |-> "ok"]
            ELSE [rows |-> rows, result |-> "error"]

\* The statement get_audit_logs builds, as the sequence of its clauses: the
\* text starts with SELECT .. FROM audit_logs ORDER BY timestamp DESC, and
\* push_str adds WHERE, LIMIT and OFFSET in this order for the arguments
\* that are given.
AuditQuery(limit, offset, event_type) ==
    <<"SELECT", "ORDER BY">>
        \o (IF event_type # <<>> THEN <<"WHERE">> ELSE <<>>)
        \o (IF limit # <<>> THEN <<"LIMIT">> ELSE <<>>)
        \o (IF offset # <<>> THEN <<"OFFSET">> ELSE <<>>)

\* conn.prepare(&query): the engine accepts a SELECT whose clauses come in
\* the order WHERE, ORDER BY, LIMIT, OFFSET, each at most once, with OFFSET
\* only after LIMIT.
ClauseRank(clause) ==
    CASE clause = "SELECT"   -> 0
      [] clause = "WHERE"    -> 1
      [] clause = "ORDER BY" -> 2
      [] clause = "LIMIT"    -> 3
      [] clause = "OFFSET"   -> 4

Prepare(query) ==
    /\ \A i \in 1..(Len(query) - 1) :
           ClauseRank(query[i]) < ClauseRank(query[i + 1])
    /\ \A i \in 1..Len(query) :
           query[i] = "OFFSET" => (i > 1 /\ query[i - 1] = "LIMIT")

\* The ids of the rows of the audit table that the clauses select, newest
\* first: the id of a row is its position, and the rows are inserted in the
\* order of their timestamps.
RECURSIVE AuditSelect(_, _, _)
AuditSelect(rows, n, event_type) ==
    IF n = 0 THEN <<>>
    ELSE IF event_type = <<>> \/ rows[n] = event_type[1]
         THEN <<n>> \o AuditSelect(rows, n - 1, event_type)
         ELSE AuditSelect(rows, n - 1, event_type)

\* LIMIT and OFFSET applied to the selected rows.
Page(selected, limit, offset) ==
    LET skip == IF offset # <<>> THEN Min(offset[1], Len(selected)) ELSE 0
        rest == SubSeq(selected, skip + 1, Len(selected))
        kept == IF limit # <<>> THEN Min(limit[1], Len(rest)) ELSE Len(rest)
    IN  SubSeq(rest, 1, kept)

\* AuditLogger::get_audit_logs: Err when the statement does not prepare.
GetAuditLogs(rows, limit, offset, event_type) ==
    LET query == AuditQuery(limit, offset, event_type)
        filter == IF \E i \in 1..Len(query) : query[i] = "WHERE"
                  THEN event_type ELSE <<>>
    IN  IF Prepare(query)
        THEN [result |-> "ok",
              logs |-> Page(AuditSelect(rows, Len(rows), filter), limit, offset)]
        ELSE [result |-> "error", logs |-> <<>>]

\* What a handler answers after the manager's call succeeded and log_event
\* returned audit: the error of log_event is logged and dropped.
ReplyAfterAudit(audit) == "success"

\* The AppError of a failed update_config or upload_certificate, and of the
\* checks api_config_update_handler makes before it calls update_config.
AppErrorOf(reply) ==
    CASE reply = "validation_error" -> AppError("Validation", "ValidationError")
      [] reply = "ConfigValidationFailed" ->
             AppError("Config", "ConfigValidationFailed")
      [] reply = "CertificateInvalid" ->
             AppError("Certificate", "CertificateInvalid")
      [] reply = "FileSystemError" -> AppError("FileSystem", "FileSystemError")
      [] reply = "FilePermissionDenied" ->
             AppError("FileSystem", "FilePermissionDenied")

\* The HTTP response of a control-plane handler: its status and the request
\* id in it, if any.  api_config_update_handler and the upload handler
\* reject with their AppError, which handle_rejection answers, with a new
\* request id (id); api_certificates_delete_handler builds the response of
\* an error itself.
ControlResponse(kind, reply, id) ==
    IF reply = "success"
    THEN [status |-> 200, request_id |-> <<>>]
    ELSE IF kind = "certificate_delete"
    THEN [status |-> 500, request_id |-> <<>>]
    ELSE LET path == IF kind = "config_update"
                     THEN <<"ui", "api", "config", "update">>
                     ELSE <<"ui", "api", "certificates", "upload">>
             err == RejectionOfHandler("POST", path, AppErrorOf(reply))
         IN  [status |-> HandleRejection(err).status, request_id |-> <<id>>]

\* The history of a control-plane request of the given kind; the request
\* ids, which are random UUIDs, are numbered.
CtlHistAfter(kind, reply, audited) ==
    /\ ctlOps' = ctlOps + 1
    /\ okCount' = IF reply = "success"
                  THEN [okCount EXCEPT ![kind] = @ + 1] ELSE okCount
    /\ lastOp' = [kind |-> kind, reply |-> reply, audited |-> audited,
                  response |-> ControlResponse(kind, reply, ctlOps + 1)]

\* api_config_update_handler
ApiConfigUpdate(u, diskOk, auditOk) ==
    /\ IF u.target_url = EmptyUrl \/ u.timeout_secs = 0
       THEN \* rejected before update_config is called
            /\ CtlHistAfter("config_update", "validation_error", FALSE)
            /\ UNCHANGED <<cfgVars, auditRows, lastUpdate, lastUpload>>
       ELSE LET res == UpdateConfig(config, diskConfig, fs, u, diskOk)
                audit == LogEvent(auditRows, "config_update", auditOk)
            IN  /\ config' = res.config
                /\ diskConfig' = res.disk
                /\ IF res.result = "ok"
                   THEN /\ auditRows' = audit.rows
                        /\ CtlHistAfter("config_update", ReplyAfterAudit(audit),
                                        audit.result = "ok")
                        /\ lastUpdate' = <<u>>
                   ELSE /\ CtlHistAfter("config_update", res.result, FALSE)
                        /\ UNCHANGED <<auditRows, lastUpdate>>
                /\ UNCHANGED <<fs, fmode, state, lastUpload>>

\* The names a caller gives to the file part of an upload.
Filenames == {"client.crt", "ca.crt"}

\* api_certificates_upload_multipart_handler, for a well-formed form: a
\* cert_type of client, key or ca and a file part that has a filename and
\* is not empty.
ApiCertificatesUpload(kind, filename, content, failAt, auditOk) ==
    /\ LET upload == [cert_type |-> kind, filename |-> filename,
                      content |-> content]
           res == UploadCertificate(config, fs, fmode, upload, failAt)
           audit == LogEvent(auditRows, "certificate_upload", auditOk)
       IN  /\ config' = res.config
           /\ fs' = res.fs
           /\ fmode' = res.fmode
           /\ IF res.result = "ok"
              THEN /\ auditRows' = audit.rows
                   /\ CtlHistAfter("certificate_upload", ReplyAfterAudit(audit),
                                   audit.result = "ok")
                   /\ lastUpload' = <<[kind |-> kind, content |-> content]>>
              ELSE /\ CtlHistAfter("certificate_upload", res.result, FALSE)
                   /\ UNCHANGED <<auditRows, lastUpload>>
           /\ UNCHANGED <<diskConfig, state, lastUpdate>>

\* api_certificates_delete_handler: the filename is the last segment of
\* the request path
ApiCertificatesDelete(name, rmOk, auditOk) ==
    /\ LET res == DeleteCertificate(fs, fmode, <<name>>, rmOk)
           audit == LogEvent(auditRows, "certificate_delete", auditOk)
       IN  /\ fs' = res.fs
           /\ fmode' = res.fmode
           /\ IF res.result = "ok"
              THEN /\ auditRows' = audit.rows
                   /\ CtlHistAfter("certificate_delete", ReplyAfterAudit(audit),
                                   audit.result = "ok")
              ELSE /\ CtlHistAfter("certificate_delete", res.result, FALSE)
                   /\ UNCHANGED auditRows
           /\ UNCHANGED <<config, diskConfig, state, lastUpdate, lastUpload>>

CtlInit ==
    /\ config = BootConfig
    /\ diskConfig = <<>>
    /\ fs = BootFiles
    /\ fmode = BootModes
    /\ state = AppStateNew(BootConfig, BootFiles)
    /\ auditRows = <<>>
    /\ ctlOps = 0
    /\ okCount = [k \in EventKinds |-> 0]
    /\ lastOp = [kind |-> "none", reply |-> "none", audited |-> FALSE,
                 response |-> [status |-> 200, request_id |-> <<>>]]
    /\ lastUpdate = <<>>
    /\ lastUpload = <<>>

----------------------------------------------------------------------------
(* LogManager (src/src/logging.rs) *)

HasId(rows, id) == \E i \in 1..Len(rows) : rows[i].id = id

\* log_request that reports success for an insert that stored nothing.
LogRequestLost(reqRows, row, dbOk) ==
    [rows |-> reqRows, result |-> IF dbOk THEN "ok" ELSE "error"]

\* LogManager::log_request: INSERT INTO requests; id is the primary key.
LogRequest(reqRows, row, dbOk) ==
    IF dbOk /\ ~HasId(reqRows, row.id)
    THEN [rows |-> Append(reqRows, row), result |-> "ok"]
    ELSE [rows |-> reqRows, result |-> "error"]

\* LogManager::log_response: INSERT INTO responses; request_id is the primary
\* key and references requests(id), which the engine enforces when fk holds.
LogResponse(respRows, reqRows, row, dbOk, fk) ==
    IF dbOk /\ ~HasId(respRows, row.id) /\ (fk => HasId(reqRows, row.id))
    THEN [rows |-> Append(respRows, row), result |-> "ok"]
    ELSE [rows |-> respRows, result |-> "error"]

\* The store keeps a timestamp as the text of DateTime::to_rfc3339 and
\* compares texts byte by byte.  An instant of the store is a number of
\* microseconds into a minute; its text is modelled from the seconds on,
\* as the ASCII codes of its characters, with + for the offset +00:00.
Ascii == [plus |-> 43, stop |-> 46, zero |-> 48]

RECURSIVE Digits(_, _)
\* n written with width digits
Digits(n, width) ==
    IF width = 0 THEN <<>>
    ELSE Append(Digits(n \div 10, width - 1), Ascii.zero + (n % 10))

RECURSIVE DigitsValue(_)
DigitsValue(text) ==
    IF text = <<>> THEN 0
    ELSE 10 * DigitsValue(SubSeq(text, 1, Len(text) - 1))
             + (text[Len(text)] - Ascii.zero)

\* DateTime::to_rfc3339: no fraction of a second when it is zero, else
\* three digits when it is a number of milliseconds, else six.
Rfc3339(t) ==
    LET secs == t \div 1000000
        sub == t % 1000000
    IN  Digits(secs, 2)
            \o (IF sub = 0 THEN <<>>
                ELSE IF sub % 1000 = 0
                THEN <<Ascii.stop>> \o Digits(sub \div 1000, 3)
                ELSE <<Ascii.stop>> \o Digits(sub, 6))
            \o <<Ascii.plus>>

\* DateTime::parse_from_rfc3339(text).with_timezone(&Utc)
ParseRfc3339(text) ==
    LET secs == DigitsValue(SubSeq(text, 1, 2))
        frac == IF text[3] = Ascii.stop
                THEN SubSeq(text, 4, Len(text) - 1) ELSE <<>>
        sub == IF Len(frac) = 3 THEN 1000 * DigitsValue(frac)
               ELSE DigitsValue(frac)
    IN  secs * 1000000 + sub

RECURSIVE TextLeq(_, _)
\* a <= b for two TEXT values of SQLite (memcmp, a prefix is smaller)
TextLeq(a, b) ==
    IF a = <<>> THEN TRUE
    ELSE IF b = <<>> THEN FALSE
    ELSE IF Head(a) # Head(b) THEN Head(a) < Head(b)
    ELSE TextLeq(Tail(a), Tail(b))

\* timestamp < ?, on the texts
TextLess(a, b) == ~TextLeq(b, a)

\* LogManager::cleanup_old_logs, with the instant of the cutoff: DELETE FROM
\* responses WHERE timestamp < ?, then DELETE FROM requests WHERE
\* timestamp < ?, each committed on its own.  When the engine enforces the
\* foreign key (fk), the second statement fails if a request it would
\* delete still has a response row, and the function returns Err.
CleanupOldLogs(reqRows, respRows, cutoff, fk) ==
    LET old(row) == TextLess(Rfc3339(row.timestamp), Rfc3339(cutoff))
        respKept == SelectSeq(respRows, LAMBDA row : ~old(row))
        reqKept == SelectSeq(reqRows, LAMBDA row : ~old(row))
        referenced == \E i \in 1..Len(reqRows) :
                         old(reqRows[i]) /\ HasId(respKept, reqRows[i].id)
    IN  IF fk /\ referenced
        THEN [requests |-> reqRows, responses |-> respKept,
              result |-> "error"]
        ELSE [requests |-> reqKept, responses |-> respKept, result |-> "ok"]

\* The join that leaves out a request without a response row.
InnerJoin(reqRows, respRows) ==
    {[request |-> reqRows[i], response |-> <<respRows[k]>>] :
        <<i, k>> \in {p \in (1..Len(reqRows)) \X (1..Len(respRows)) :
                         reqRows[p[1]].id = respRows[p[2]].id}}

\* FROM requests r LEFT JOIN responses resp ON r.id = resp.request_id: the
\* response side of a request without a response row is NULL (<<>>).
LeftJoin(reqRows, respRows) ==
    UNION {LET r == reqRows[i]
               matches == {k \in 1..Len(respRows) : respRows[k].id = r.id}
           IN  IF matches = {}
               THEN {[request |-> r, response |-> <<>>]}
               ELSE {[request |-> r, response |-> <<respRows[k]>>] :
                       k \in matches}
           : i \in 1..Len(reqRows)}

\* The rows of a result of search_logs: the timestamps are parsed from the
\* texts of the store.
SearchRow(j) ==
    [request |-> [j.request EXCEPT
                    !.timestamp = ParseRfc3339(Rfc3339(j.request.timestamp))],
     response |-> IF j.response = <<>> THEN <<>>
                  ELSE <<[j.response[1] EXCEPT
                            !.timestamp =
                                ParseRfc3339(Rfc3339(j.response[1].timestamp))]>>]

\* LogManager::search_logs: the results the query can give; the order of
\* rows with the same timestamp is not determined by ORDER BY.  An argument
\* is <<>> for None and <<v>> for Some(v).
SearchLogs(reqRows, respRows, start_time, end_time, method, status_code, limit) ==
    LET selected ==
            {j \in LeftJoin(reqRows, respRows) :
                /\ start_time # <<>> =>
                       TextLeq(Rfc3339(start_time[1]),
                               Rfc3339(j.request.timestamp))
                /\ end_time # <<>> =>
                       TextLeq(Rfc3339(j.request.timestamp),
                               Rfc3339(end_time[1]))
                /\ method # <<>> => j.request.method = method[1]
                /\ status_code # <<>> =>
                       /\ j.response # <<>>
                       /\ j.response[1].status_code = status_code[1]}
        n == Cardinality(selected)
        ordered ==
            {o \in [1..n -> selected] :
                /\ \A i, k \in 1..n : i # k => o[i] # o[k]
                /\ \A i, k \in 1..n :
                       i < k => TextLeq(Rfc3339(o[k].request.timestamp),
                                        Rfc3339(o[i].request.timestamp))}
        kept == IF limit # <<>> /\ limit[1] < n THEN limit[1] ELSE n
    IN  {[i \in 1..kept |-> SearchRow(o[i])] : o \in ordered}

----------------------------------------------------------------------------
(* Metrics (src/src/metrics.rs) *)

MetricsNew ==
    [requests_total |-> 0, requests_in_progress |-> 0, responses_total |-> 0,
     errors_total |-> 0, request_errors |-> 0, tls_errors |-> 0,
     timeout_errors |-> 0, active_connections |-> 0, connection_errors |-> 0]

RecordRequestStart(m) ==
    [m EXCEPT !.requests_total = @ + 1, !.requests_in_progress = @ + 1]

RecordRequestEnd(m) == [m EXCEPT !.requests_in_progress = @ - 1]

RecordResponse(m) == [m EXCEPT !.responses_total = @ + 1]

RecordError(m, error_type) ==
    LET m1 == [m EXCEPT !.errors_total = @ + 1]
    IN  CASE error_type = "request"    -> [m1 EXCEPT !.request_errors = @ + 1]
          [] error_type = "tls"        -> [m1 EXCEPT !.tls_errors = @ + 1]
          [] error_type = "timeout"    -> [m1 EXCEPT !.timeout_errors = @ + 1]
          [] error_type = "connection" -> [m1 EXCEPT !.connection_errors = @ + 1]
          [] OTHER                     -> [m1 EXCEPT !.request_errors = @ + 1]

RecordConnectionStart(m) == [m EXCEPT !.active_connections = @ + 1]

RecordConnectionEnd(m) == [m EXCEPT !.active_connections = @ - 1]

----------------------------------------------------------------------------
(* The headers of the outbound request (proxy_handler, src/src/proxy.rs) *)

HopByHopHeaders ==
    {"connection", "keep-alive", "proxy-authenticate", "proxy-authorization",
     "te", "trailers", "transfer-encoding", "upgrade"}

\* The header names of the model that are not in lower case.
LowerOf ==
    [n \in {"Connection", "Keep-Alive", "Proxy-Authenticate",
            "Proxy-Authorization", "TE", "Trailers", "Transfer-Encoding",
            "Upgrade", "Accept", "X-Forwarded-For", "X-Forwarded-Proto",
            "X-Request-ID"} |->
        CASE n = "Connection"          -> "connection"
          [] n = "Keep-Alive"          -> "keep-alive"
          [] n = "Proxy-Authenticate"  -> "proxy-authenticate"
          [] n = "Proxy-Authorization" -> "proxy-authorization"
          [] n = "TE"                  -> "te"
          [] n = "Trailers"            -> "trailers"
          [] n = "Transfer-Encoding"   -> "transfer-encoding"
          [] n = "Upgrade"             -> "upgrade"
          [] n = "Accept"              -> "accept"
          [] n = "X-Forwarded-For"     -> "x-forwarded-for"
          [] n = "X-Forwarded-Proto"   -> "x-forwarded-proto"
          [] n = "X-Request-ID"        -> "x-request-id"]

\* name.to_lowercase(), which is also what HeaderName makes of a name
ToLowercase(name) == IF name \in DOMAIN LowerOf THEN LowerOf[name] ELSE name

\* is_hop_by_hop_header without the name te.
IsHopByHopHeaderShort(name) ==
    ToLowercase(name) \in HopByHopHeaders \ {"te"}

\* is_hop_by_hop_header
IsHopByHopHeader(name) == ToLowercase(name) \in HopByHopHeaders

\* A HeaderMap is the sequence of its entries, a name with its values, in
\* the order the names were first inserted.
\* HeaderMap::append
HeaderAppend(map, name, value) ==
    IF \E i \in 1..Len(map) : map[i].name = name
    THEN LET i == CHOOSE j \in 1..Len(map) : map[j].name = name
         IN  [map EXCEPT ![i].values = Append(@, value)]
    ELSE Append(map, [name |-> name, values |-> <<value>>])

\* The values a HeaderMap holds for a name.
HeaderValues(map, name) ==
    UNION {{map[i].values[j] : j \in 1..Len(map[i].values)} :
               i \in {k \in 1..Len(map) : map[k].name = name}}

\* warp::header::headers_cloned: the HeaderMap of the header lines of the
\* inbound request, where a line is a name, in any letter case, and a value.
RECURSIVE HeaderMapOf(_)
HeaderMapOf(lines) ==
    IF lines = <<>> THEN <<>>
    ELSE LET n == Len(lines)
         IN  HeaderAppend(HeaderMapOf(SubSeq(lines, 1, n - 1)),
                          ToLowercase(lines[n].name), lines[n].value)

\* HeaderMap::into_iter: the first value of a name comes with Some(name), its
\* further values with None.
RECURSIVE IntoIter(_)
IntoIter(map) ==
    IF map = <<>> THEN <<>>
    ELSE LET n == Len(map)
             e == map[n]
         IN  IntoIter(SubSeq(map, 1, n - 1))
                 \o [i \in 1..Len(e.values) |->
                        [name |-> IF i = 1 THEN <<e.name>> ELSE <<>>,
                         value |-> e.values[i]]]

\* The loop that copies the headers: an item with a name that is not
\* hop-by-hop is appended to the builder.
RECURSIVE CopyHeaders(_)
CopyHeaders(items) ==
    IF items = <<>> THEN <<>>
    ELSE LET n == Len(items)
             copied == CopyHeaders(SubSeq(items, 1, n - 1))
         IN  IF items[n].name # <<>> /\ ~IsHopByHopHeader(items[n].name[1])
             THEN HeaderAppend(copied, items[n].name[1], items[n].value)
             ELSE copied

\* Uuid::new_v4().to_string(), for the n-th fresh UUID
UuidString(n) == "uuid-" \o ToString(n)

\* The headers of target_req: the copied headers and the proxy headers.
TargetHeaders(lines, request_id) ==
    HeaderAppend(
        HeaderAppend(
            HeaderAppend(CopyHeaders(IntoIter(HeaderMapOf(lines))),
                         ToLowercase("X-Forwarded-For"), "127.0.0.1"),
            ToLowercase("X-Forwarded-Proto"), "http"),
        ToLowercase("X-Request-ID"), request_id)

----------------------------------------------------------------------------
(* proxy_handler and forward_request_with_mtls (src/src/proxy.rs) *)

Reqs == 1..MaxReq

\* Body lengths, in units of the size limit max_request_size_mb * 1024 * 1024:
\* a body of exactly the limit and a larger one.
SizeLimit == 1
BodyLens == {SizeLimit, SizeLimit + 1}

\* body.len() > max_size
TooLarge(bodyLen) == bodyLen > SizeLimit

\* An inbound request: its method, the segments of its path, its query
\* (<<>> when the URI has no query string, <<q>> when it has the query
\* string q, which may be empty), its header lines and the length of its
\* body.
NoInbound ==
    [method |-> "", path |-> <<>>, query |-> <<>>, headers |-> <<>>,
     bodyLen |-> 0]

\* The requests of a client of the target API, without headers.
PlainRequests ==
    {[method |-> "GET", path |-> <<"api", "data">>, query |-> <<"a=1">>,
      headers |-> <<>>, bodyLen |-> n] : n \in BodyLens}

\* The target URL of proxy_handler: format!("{}{}?{}", ..) when the query
\* is not empty and format!("{}{}", ..) when it is; a URL is kept as the
\* parts that were put together.
NoUri == [base |-> EmptyUrl, path |-> <<>>, query |-> <<>>]
TargetUri(target_url, path, query) ==
    IF query # ""
    THEN [base |-> target_url, path |-> path, query |-> <<query>>]
    ELSE [base |-> target_url, path |-> path, query |-> <<>>]

\* The body of an upstream response, and of the 504 response of a timeout.
UpstreamBody == "upstream body"
GatewayTimeoutBody == "Gateway Timeout"

\* ResponseLog stamped with the start of the epoch.
ResponseLogEpoch(id, status_code, t) ==
    [id |-> id, status_code |-> status_code, timestamp |-> 0]

\* RequestLog and ResponseLog, with timestamp: Utc::now()
RequestLog(id, method, uri, t) ==
    [id |-> id, method |-> method, uri |-> uri, timestamp |-> t]
ResponseLog(id, status_code, t) ==
    [id |-> id, status_code |-> status_code, timestamp |-> t]

UpstreamStatuses == {200, 404}
UpstreamStages == {"connect", "tls", "http", "send"}

\* upElapsed and sendElapsed are the seconds a request has spent in its
\* upstream exchange and in its send; both end with the exchange.

\* req is the inbound request, headers the headers of the outbound request;
\* status, code and body are the reply to the client.  layer is the stream
\* the function holds to the upstream ("none", "tcp" for the TcpStream or
\* "tls" for the stream of a completed handshake) and written the stream
\* the bytes of the request were written to; the streams end with the
\* exchange.
NoRequest ==
    [id |-> 0, admitted |-> FALSE, url |-> EmptyUrl, timeout |-> 0,
     conn |-> <<>>, upElapsed |-> 0, sendElapsed |-> 0, outcome |-> "none",
     upstream |-> 0, status |-> 0, reqLogged |-> FALSE, respLogged |-> FALSE,
     expUpdate |-> <<>>, expUpload |-> <<>>, uri |-> NoUri,
     req |-> NoInbound, headers |-> <<>>, code |-> "", body |-> "",
     layer |-> "none", written |-> "none"]

\* A request that no control-plane route takes and that has no query
\* string: warp::query::raw() of proxy_route rejects it, proxy_handler is
\* not called and handle_rejection answers.
Unrouted(r, req) ==
    /\ pc[r] = "idle"
    /\ \A q \in 1..(r - 1) : pc[q] # "idle"
    /\ RouteOf(req.method, req.path) = "proxy_handler"
    /\ req.query = <<>>
    /\ LET res == HandleRejection(RejectionOfFilter(req, "InvalidQuery"))
       IN  rq' = [rq EXCEPT ![r].req = req,
                            ![r].status = res.status,
                            ![r].code = res.code,
                            ![r].outcome = "unrouted"]
    /\ pc' = [pc EXCEPT ![r] = "done"]
    /\ UNCHANGED <<rlVars, rlHist, ctlVars, auxVars, requests, responses,
                   foreignKeys, nextId, now, metrics>>

\* proxy_handler up to the call of forward_request_with_mtls, for a request
\* that create_routes hands to it, one with a query string: the rate
\* limiter, the size gate, the request id, the target request and
\* log_request.
Begin(r, req, dbOk) ==
    /\ pc[r] = "idle"
    /\ \A q \in 1..(r - 1) : pc[q] # "idle"
    /\ RouteOf(req.method, req.path) = "proxy_handler"
    /\ req.query # <<>>
    /\ LET res == CheckAsync(tokens, rlElapsed, rps, burst, overflowChecks)
           started == RecordConnectionStart(RecordRequestStart(metrics))
           failed == RecordConnectionEnd(RecordError(started, "request"))
           row == RequestLog(nextId, req.method, state.target_url, now)
           logged == LogRequest(requests, row, dbOk)
       IN  /\ tokens' = res.tokens
           /\ rlElapsed' = res.elapsed
           /\ IF res.result = "panic"
              THEN /\ pc' = [pc EXCEPT ![r] = "done"]
                   /\ rq' = [rq EXCEPT ![r].req = req,
                                       ![r].outcome = res.result]
                   /\ metrics' = started
                   /\ UNCHANGED <<requests, nextId>>
              ELSE IF res.result = "rejected"
              THEN /\ pc' = [pc EXCEPT ![r] = "done"]
                   /\ rq' = [rq EXCEPT
                         ![r].req = req,
                         ![r].status = HandleRejection(
                             Rejection(req, "RateLimitExceeded")).status,
                         ![r].code = HandleRejection(
                             Rejection(req, "RateLimitExceeded")).code,
                         ![r].outcome = res.result]
                   /\ metrics' = failed
                   /\ UNCHANGED <<requests, nextId>>
              ELSE IF TooLarge(req.bodyLen)
              THEN /\ pc' = [pc EXCEPT ![r] = "done"]
                   /\ rq' = [rq EXCEPT
                         ![r].req = req,
                         ![r].admitted = TRUE,
                         ![r].status = HandleRejection(
                             Rejection(req, "RequestTooLarge")).status,
                         ![r].code = HandleRejection(
                             Rejection(req, "RequestTooLarge")).code,
                         ![r].outcome = "too_large"]
                   /\ metrics' = failed
                   /\ UNCHANGED <<requests, nextId>>
              ELSE /\ pc' = [pc EXCEPT ![r] = "connect"]
                   /\ nextId' = nextId + 1
                   /\ requests' = logged.rows
                   /\ rq' = [rq EXCEPT
                         ![r].req = req,
                         ![r].admitted = TRUE,
                         ![r].id = nextId,
                         ![r].url = state.target_url,
                         ![r].uri = TargetUri(state.target_url, req.path,
                                              req.query[1]),
                         ![r].timeout = state.timeout_duration,
                         ![r].headers =
                             TargetHeaders(req.headers, UuidString(nextId)),
                         ![r].reqLogged = (logged.result = "ok"),
                         ![r].expUpdate = lastUpdate,
                         ![r].expUpload = lastUpload]
                   /\ metrics' = started
    /\ UNCHANGED <<rps, burst, overflowChecks, rlHist, ctlVars, auxVars, responses,
                   foreignKeys, now>>

\* An exchange that goes from the TCP connection to HTTP at once.
NextStageNoTls(stage) ==
    CASE stage = "connect" -> "http"
      [] stage = "tls"     -> "http"
      [] stage = "http"    -> "send"

\* The stream the function holds when a stage has completed: the TcpStream
\* of TcpStream::connect, the TlsStream that connector().connect(..) made
\* of it, which hyper's handshake keeps.
LayerAfter(stage, layer) ==
    CASE stage = "connect" -> "tcp"
      [] stage = "tls"     -> "tls"
      [] stage = "http"    -> layer

\* The stage the upstream exchange enters when a stage completes.
NextStage(stage) ==
    CASE stage = "connect" -> "tls"
      [] stage = "tls"     -> "http"
      [] stage = "http"    -> "send"

\* TcpStream::connect, the TLS handshake or the HTTP handshake completes.
\* The handshake uses the connector of the handler's tls_client.  When the
\* HTTP handshake has completed, sender.send_request writes the request to
\* the stream the sender was made of.
UpstreamProgress(r) ==
    /\ pc[r] \in {"connect", "tls", "http"}
    /\ pc' = [pc EXCEPT ![r] = NextStage(pc[r])]
    /\ LET layer == LayerAfter(pc[r], rq[r].layer)
       IN  rq' = [rq EXCEPT
                 ![r].conn = IF pc[r] = "connect"
                             THEN <<state.tls_client>> ELSE @,
                 ![r].layer = layer,
                 ![r].written = IF NextStage(pc[r]) = "send" THEN layer ELSE @]
    /\ UNCHANGED <<rlVars, rlHist, ctlVars, auxVars, requests, responses, foreignKeys,
                   nextId, now, metrics>>

\* A stage of the exchange fails with a network error: the function returns
\* Err.
UpstreamFail(r) ==
    /\ pc[r] \in UpstreamStages
    /\ pc' = [pc EXCEPT ![r] = "respond"]
    /\ rq' = [rq EXCEPT ![r].outcome = "error",
                        ![r].layer = "none", ![r].written = "none",
                        ![r].upElapsed = 0, ![r].sendElapsed = 0]
    /\ UNCHANGED <<rlVars, rlHist, ctlVars, auxVars, requests, responses, foreignKeys,
                   nextId, now, metrics>>

\* sender.send_request completes with the upstream's response.
UpstreamResponse(r, st) ==
    /\ pc[r] = "send"
    /\ pc' = [pc EXCEPT ![r] = "respond"]
    /\ rq' = [rq EXCEPT ![r].outcome = "response", ![r].upstream = st,
                        ![r].body = UpstreamBody,
                        ![r].layer = "none", ![r].written = "none",
                        ![r].upElapsed = 0, ![r].sendElapsed = 0]
    /\ UNCHANGED <<rlVars, rlHist, ctlVars, auxVars, requests, responses, foreignKeys,
                   nextId, now, metrics>>

\* tokio::time::timeout(timeout_duration, sender.send_request(req)) expires:
\* the function returns a 504 response.
SendTimeout(r) ==
    /\ pc[r] = "send"
    /\ rq[r].sendElapsed >= rq[r].timeout
    /\ pc' = [pc EXCEPT ![r] = "respond"]
    /\ rq' = [rq EXCEPT ![r].outcome = "timeout", ![r].upstream = 504,
                        ![r].body = GatewayTimeoutBody,
                        ![r].layer = "none", ![r].written = "none",
                        ![r].upElapsed = 0, ![r].sendElapsed = 0]
    /\ UNCHANGED <<rlVars, rlHist, ctlVars, auxVars, requests, responses, foreignKeys,
                   nextId, now, metrics>>

\* The response row of a failed exchange written with the client's status.
LoggedStatusOfClient(q) == IF q.outcome = "error" THEN 502 ELSE q.upstream

\* The status_code of the response row proxy_handler writes.
LoggedStatus(q) == IF q.outcome = "error" THEN 500 ELSE q.upstream

\* A handler that answers 500 when its log_request had failed.
ClientStatusIfLogged(q) ==
    IF ~q.reqLogged THEN 500
    ELSE IF q.outcome = "error" THEN 502 ELSE q.upstream

\* The status the client receives: the response of the function, or the
\* answer of handle_rejection to the ForwardError rejection.
ClientStatus(q) ==
    IF q.outcome = "error"
    THEN HandleRejection(Rejection(q.req, "ForwardError")).status
    ELSE q.upstream

\* proxy_handler after forward_request_with_mtls returned: log_response, the
\* metrics and the reply.
Finish(r, dbOk) ==
    /\ pc[r] = "respond"
    /\ LET row == ResponseLog(rq[r].id, LoggedStatus(rq[r]), now)
           logged == LogResponse(responses, requests, row, dbOk, foreignKeys)
           ended == RecordConnectionEnd(RecordRequestEnd(metrics))
       IN  /\ responses' = logged.rows
           /\ rq' = [rq EXCEPT
                 ![r].respLogged = (logged.result = "ok"),
                 ![r].status = ClientStatus(rq[r]),
                 ![r].code =
                     IF rq[r].outcome = "error"
                     THEN HandleRejection(
                              Rejection(rq[r].req, "ForwardError")).code
                     ELSE @]
           /\ metrics' = IF rq[r].outcome = "error"
                         THEN RecordError(ended, "request")
                         ELSE RecordResponse(ended)
    /\ pc' = [pc EXCEPT ![r] = "done"]
    /\ UNCHANGED <<rlVars, rlHist, ctlVars, auxVars, requests, foreignKeys, nextId, now>>

\* One second passes.  The timer of a send that has run for timeout_duration
\* fires before more time passes.  (The specifications stop the clock at
\* their bound.)
Tick ==
    /\ \A r \in Reqs : ~(pc[r] = "send" /\ rq[r].sendElapsed >= rq[r].timeout)
    /\ now' = now + 1
    /\ rlElapsed' = Min(rlElapsed + TicksPerSec, MaxElapsed)
    /\ rq' = [r \in Reqs |->
                IF pc[r] \in UpstreamStages
                THEN [rq[r] EXCEPT !.upElapsed = @ + 1,
                                   !.sendElapsed = IF pc[r] = "send" THEN @ + 1 ELSE @]
                ELSE rq[r]]
    /\ UNCHANGED <<rps, burst, tokens, overflowChecks, rlHist, ctlVars, auxVars,
                   requests, responses, foreignKeys, nextId, pc, metrics>>

DataInit ==
    /\ requests = <<>>
    /\ responses = <<>>
    /\ nextId = 1
    /\ now = 0
    /\ pc = [r \in Reqs |-> "idle"]
    /\ rq = [r \in Reqs |-> NoRequest]
    /\ metrics = MetricsNew

----------------------------------------------------------------------------
(* Specification Spec: the request pipeline and the control plane. *)

\* The bucket holds a single token, or one for every handler task.
Init ==
    /\ \E b \in {1, MaxReq} : RateLimiterNew(1, b)
    /\ overflowChecks = FALSE
    /\ HistInit
    /\ CtlInit
    /\ DataInit
    /\ AuxInit
    /\ foreignKeys \in BOOLEAN

\* The control-plane requests of the model: one of the three mutating
\* endpoints, with a patch of U, a content of C, a file-system failure of F
\* and a disk or audit write that succeeds or not as B allows.
ControlPlane(U, C, F, B) ==
    \/ \E u \in U, diskOk \in B, auditOk \in B :
          ApiConfigUpdate(u, diskOk, auditOk)
    \/ \E kind \in CertificateTypes, filename \in Filenames, c \in C,
          failAt \in F, auditOk \in B :
          ApiCertificatesUpload(kind, filename, c, failAt, auditOk)
    \/ \E name \in CertNames, rmOk \in B, auditOk \in B :
          ApiCertificatesDelete(name, rmOk, auditOk)

\* The patches the pipeline specification applies: a new target and timeout,
\* and one that fails validation.
PipelineUpdates ==
    {[target_url |-> [scheme |-> "https", host |-> "b"], timeout_secs |-> MaxTimeout,
      max_connections |-> 1],
     [target_url |-> [scheme |-> "http", host |-> "a"], timeout_secs |-> 1,
      max_connections |-> 1]}

\* The steps of the handler tasks R of proxy_handler, for the inbound
\* requests Q.
DataPlane(R, Q) ==
    \/ \E r \in R, req \in Q, dbOk \in BOOLEAN : Begin(r, req, dbOk)
    \/ \E r \in R : UpstreamProgress(r)
    \/ \E r \in R : UpstreamFail(r)
    \/ \E r \in R, st \in UpstreamStatuses : UpstreamResponse(r, st)
    \/ \E r \in R : SendTimeout(r)
    \/ \E r \in R, dbOk \in BOOLEAN : Finish(r, dbOk)

Next ==
    \/ /\ ctlOps < MaxOps
       /\ ControlPlane(PipelineUpdates, {MaxContent}, {"none"}, {TRUE})
       /\ UNCHANGED <<rlVars, rlHist, dataVars, auxVars>>
    \/ DataPlane(Reqs, PlainRequests)
    \/ (now < MaxClock /\ Tick)

Spec == Init /\ [][Next]_vars

----------------------------------------------------------------------------
(* Specification SpecLog: the request pipeline alone. *)

NextLog ==
    \/ DataPlane(Reqs, PlainRequests)
    \/ (now < MaxLogClock /\ Tick)

SpecLog == Init /\ [][NextLog]_vars

----------------------------------------------------------------------------
(* Specification SpecOne: the request pipeline for a single request. *)

NextOne ==
    \/ DataPlane({1}, PlainRequests)
    \/ (now < MaxLogClock /\ Tick)

SpecOne == Init /\ [][NextOne]_vars

----------------------------------------------------------------------------
(* Specification SpecRoute: the request pipeline, for requests of several
   methods and paths. *)

Methods == {"GET", "POST"}
RoutePaths == {<<"api", "data">>, <<"health">>, <<"ui", "api", "nonexistent">>}

RouteRequests ==
    {[method |-> m, path |-> p, query |-> <<"a=1">>, headers |-> <<>>,
      bodyLen |-> n] : m \in Methods, p \in RoutePaths, n \in BodyLens}

NextRoute ==
    \/ DataPlane(Reqs, RouteRequests)
    \/ (now < MaxLogClock /\ Tick)

SpecRoute == Init /\ [][NextRoute]_vars

----------------------------------------------------------------------------
(* Specification SpecHdr: the target request proxy_handler builds, for the
   header lines of the model. *)

\* The header lines: every hop-by-hop name in lower case and capitalised,
\* and names that are not hop-by-hop, with one of two values.
WireHeaders ==
    {[name |-> n, value |-> "a"] :
        n \in HopByHopHeaders \cup
              {c \in DOMAIN LowerOf : LowerOf[c] \in HopByHopHeaders}}
    \cup {[name |-> n, value |-> v] :
            n \in {"accept", "Accept", "X-Request-ID"}, v \in {"a", "b"}}

HeaderLists == UNION {[1..n -> WireHeaders] : n \in 0..MaxHeaders}

HeaderRequests ==
    {[method |-> "GET", path |-> <<"api", "data">>, query |-> <<"a=1">>,
      headers |-> h, bodyLen |-> SizeLimit] : h \in HeaderLists}

NextHdr ==
    /\ pc[1] = "idle"
    /\ \E req \in HeaderRequests, dbOk \in BOOLEAN : Begin(1, req, dbOk)

SpecHdr == Init /\ [][NextHdr]_vars

----------------------------------------------------------------------------
(* Specification SpecUri: one request through create_routes, with and
   without a query string. *)

UriPaths == {<<"api", "data">>, <<"v1", "models">>, <<>>}
Queries == {<<>>, <<"">>, <<"a=1">>, <<"q=x&n=2">>}

UriRequests ==
    {[method |-> m, path |-> p, query |-> q, headers |-> <<>>,
      bodyLen |-> n] :
        m \in Methods, p \in UriPaths, q \in Queries, n \in BodyLens}

NextUri ==
    /\ pc[1] = "idle"
    /\ \/ \E req \in UriRequests, dbOk \in BOOLEAN : Begin(1, req, dbOk)
       \/ \E req \in UriRequests : Unrouted(1, req)

SpecUri == Init /\ [][NextUri]_vars

----------------------------------------------------------------------------
(* Specification SpecCtl: the control plane alone. *)

InitCtl ==
    /\ RateLimiterNew(1, 1)
    /\ overflowChecks = FALSE
    /\ HistInit
    /\ CtlInit
    /\ DataInit
    /\ AuxInit
    /\ foreignKeys = FALSE

NextCtl ==
    /\ ctlOps < MaxCtlOps
    /\ ControlPlane(UpdateRequests, Contents, UploadFailures, BOOLEAN)
    /\ UNCHANGED <<rlVars, rlHist, dataVars, auxVars>>

SpecCtl == InitCtl /\ [][NextCtl]_vars

----------------------------------------------------------------------------
(* Specification SpecAudit: the audit table and get_audit_logs. *)

AuditLimits == {<<>>, <<0>>, <<1>>}
AuditOffsets == {<<>>, <<1>>}
AuditKinds == {<<>>, <<"config_update">>}

\* A call of log_event, from any of the handlers
LogEventCall(kind) ==
    /\ fetched = <<>>
    /\ Len(auditRows) < MaxAuditRows
    /\ auditRows' = LogEvent(auditRows, kind, TRUE).rows
    /\ UNCHANGED <<rlVars, rlHist, cfgVars, ctlHist, dataVars, auxVars>>

\* A call of get_audit_logs
GetAuditLogsCall(limit, offset, event_type) ==
    /\ fetched = <<>>
    /\ LET res == GetAuditLogs(auditRows, limit, offset, event_type)
       IN  fetched' = <<[limit |-> limit, offset |-> offset,
                         event_type |-> event_type, result |-> res.result,
                         logs |-> res.logs]>>
    /\ UNCHANGED <<rlVars, rlHist, ctlVars, dataVars, lockVars, errVars, found,
                   auditTasks, auditLock, server, moreVars>>

NextAudit ==
    \/ \E kind \in EventKinds : LogEventCall(kind)
    \/ \E limit \in AuditLimits, offset \in AuditOffsets,
          event_type \in AuditKinds :
          GetAuditLogsCall(limit, offset, event_type)

SpecAudit == InitCtl /\ [][NextAudit]_vars

----------------------------------------------------------------------------
(* Specification SpecAppend: concurrent calls of log_event, each on its own
   connection to the database file. *)

\* A database file that serves every connection at once.
BusyNever(lock, t) == FALSE

\* The write lock of the database file is held by another connection.
Busy(lock, t) == lock # 0 /\ lock # t

\* log_event up to conn.execute: the timestamp, the blocking task and
\* Connection::open.
LogEventStart(t, kind) ==
    /\ auditTasks[t].pc = "idle"
    /\ auditTasks' = [auditTasks EXCEPT ![t].pc = "execute",
                                        ![t].event_type = kind]
    /\ UNCHANGED <<rlVars, rlHist, ctlVars, dataVars, lockVars, errVars, found,
                   fetched, auditLock, server, moreVars>>

\* conn.execute(INSERT ..) begins its write transaction: it takes the
\* write lock and reads the table.
LogEventWrite(t) ==
    /\ auditTasks[t].pc = "execute"
    /\ ~Busy(auditLock, t)
    /\ auditLock' = t
    /\ auditTasks' = [auditTasks EXCEPT ![t].pc = "commit",
                                        ![t].base = auditRows]
    /\ UNCHANGED <<rlVars, rlHist, ctlVars, dataVars, lockVars, errVars, found,
                   fetched, server, moreVars>>

\* conn.execute finds the database locked: the busy handler of the
\* connection sleeps, and the statement is tried again.
LogEventWait(t) ==
    /\ auditTasks[t].pc = "execute"
    /\ Busy(auditLock, t)
    /\ ~auditTasks[t].waited
    /\ auditTasks' = [auditTasks EXCEPT ![t].waited = TRUE]
    /\ UNCHANGED <<rlVars, rlHist, ctlVars, dataVars, lockVars, errVars, found,
                   fetched, auditLock, server, moreVars>>

\* conn.execute finds the database still locked when the busy timeout of
\* the connection has passed: it returns an error, log_event returns Err.
LogEventBusy(t) ==
    /\ auditTasks[t].pc = "execute"
    /\ Busy(auditLock, t)
    /\ auditTasks[t].waited
    /\ auditTasks' = [auditTasks EXCEPT ![t].pc = "done",
                                        ![t].result = "error"]
    /\ UNCHANGED <<rlVars, rlHist, ctlVars, dataVars, lockVars, errVars, found,
                   fetched, auditLock, server, moreVars>>

\* The transaction commits: the table becomes the one it read with the new
\* row; the lock is released and log_event returns Ok.
LogEventCommit(t) ==
    /\ auditTasks[t].pc = "commit"
    /\ auditRows' = LogEvent(auditTasks[t].base, auditTasks[t].event_type,
                             TRUE).rows
    /\ auditLock' = IF auditLock = t THEN 0 ELSE auditLock
    /\ auditTasks' = [auditTasks EXCEPT ![t].pc = "done", ![t].base = <<>>,
                                        ![t].result = "ok"]
    /\ UNCHANGED <<rlVars, rlHist, cfgVars, ctlHist, dataVars, lockVars,
                   errVars, found, fetched, server, moreVars>>

NextAppend ==
    \/ \E t \in 1..MaxAuditTasks, kind \in EventKinds : LogEventStart(t, kind)
    \/ \E t \in 1..MaxAuditTasks : LogEventWrite(t)
    \/ \E t \in 1..MaxAuditTasks : LogEventWait(t)
    \/ \E t \in 1..MaxAuditTasks : LogEventBusy(t)
    \/ \E t \in 1..MaxAuditTasks : LogEventCommit(t)

SpecAppend == InitCtl /\ [][NextAppend]_vars

----------------------------------------------------------------------------
(* Specification SpecStop: ProxyServer::start, its inbound connections and
   the shutdown signal. *)

\* The listener accepts a connection.
Accept(c) ==
    /\ server.phase = "serving"
    /\ server.conns[c] = "closed"
    /\ server' = [server EXCEPT !.conns[c] = "idle"]

\* A request arrives on a connection and its handler starts.
Serve(c) ==
    /\ server.phase # "exited"
    /\ server.conns[c] = "idle"
    /\ server' = [server EXCEPT !.conns[c] = "busy"]

\* The request of a connection completes; after the shutdown signal the
\* connection is not kept alive.
Complete(c) ==
    /\ server.conns[c] = "busy"
    /\ server' = [server EXCEPT !.conns[c] =
                      IF server.phase = "serving" THEN "idle" ELSE "closed"]

\* A connection without a request in flight is closed, by the client or by
\* the shutdown.
Disconnect(c) ==
    /\ server.conns[c] = "idle"
    /\ server' = [server EXCEPT !.conns[c] = "closed"]

\* signal::ctrl_c() completes: the graceful shutdown starts.
ShutdownSignal ==
    /\ server.phase = "serving"
    /\ server' = [server EXCEPT !.phase = "draining"]

\* One second passes after the signal, while a request is in flight: the
\* shutdown closes the connections without one at once, and the server
\* exits as soon as no connection is left.
ShutdownTick ==
    /\ server.phase = "draining"
    /\ \E c \in 1..MaxOpen : server.conns[c] = "busy"
    /\ \A c \in 1..MaxOpen : server.conns[c] # "idle"
    /\ server.sinceSignal < MaxGrace
    /\ server' = [server EXCEPT !.sinceSignal = @ + 1]

\* server.await completes, when no connection is left, and start returns.
ServerExit ==
    /\ server.phase = "draining"
    /\ \A c \in 1..MaxOpen : server.conns[c] = "closed"
    /\ server' = [server EXCEPT !.phase = "exited"]

NextStop ==
    /\ \/ \E c \in 1..MaxOpen : Accept(c)
       \/ \E c \in 1..MaxOpen : Serve(c)
       \/ \E c \in 1..MaxOpen : Complete(c)
       \/ \E c \in 1..MaxOpen : Disconnect(c)
       \/ ShutdownSignal
       \/ ShutdownTick
       \/ ServerExit
    /\ UNCHANGED <<rlVars, rlHist, ctlVars, dataVars, lockVars, errVars, found,
                   fetched, auditTasks, auditLock, moreVars>>

SpecStop == InitCtl /\ [][NextStop]_vars

----------------------------------------------------------------------------
(* Specification SpecSearch: the request log store, filled by log_request
   and log_response and then searched once. *)

\* The instants of the rows, in microseconds: their texts have no
\* fraction, six digits, three digits and six digits.
Instants == {0, 500, 1000, 1500}
SearchStarts == {<<>>, <<500>>}
SearchEnds == {<<>>, <<1000>>}
SearchMethods == {<<>>, <<"GET">>}
SearchStatuses == {<<>>, <<200>>}
SearchLimits == {<<>>, <<0>>, <<1>>}

\* proxy_handler logs a request at instant t; dbOk tells whether the
\* insert succeeds
LogRequestAt(method, t, dbOk) ==
    /\ found = <<>>
    /\ nextId <= MaxSearchRows
    /\ LET row == RequestLog(nextId, method, state.target_url, t)
       IN  requests' = LogRequest(requests, row, dbOk).rows
    /\ nextId' = nextId + 1
    /\ UNCHANGED <<rlVars, rlHist, ctlVars, auxVars, responses, foreignKeys,
                   now, pc, rq, metrics>>

\* proxy_handler logs the response to the request of row i
LogResponseOf(i, status_code) ==
    /\ found = <<>>
    /\ i \in 1..Len(requests)
    /\ LET row == ResponseLog(requests[i].id, status_code,
                              requests[i].timestamp)
           res == LogResponse(responses, requests, row, TRUE, foreignKeys)
       IN  /\ res.result = "ok"
           /\ responses' = res.rows
    /\ UNCHANGED <<rlVars, rlHist, ctlVars, auxVars, requests, foreignKeys,
                   nextId, now, pc, rq, metrics>>

\* A call of search_logs
SearchLogsCall(start_time, end_time, method, status_code, limit) ==
    /\ found = <<>>
    /\ \E rows \in SearchLogs(requests, responses, start_time, end_time,
                               method, status_code, limit) :
          found' = <<[start_time |-> start_time, end_time |-> end_time,
                      method |-> method, status_code |-> status_code,
                      limit |-> limit, rows |-> rows]>>
    /\ UNCHANGED <<rlVars, rlHist, ctlVars, dataVars, lockVars, errVars, extVars>>

NextSearch ==
    \/ \E method \in Methods, t \in Instants : LogRequestAt(method, t, TRUE)
    \/ \E i \in 1..MaxSearchRows : LogResponseOf(i, 200)
    \/ \E start_time \in SearchStarts, end_time \in SearchEnds,
          method \in SearchMethods, status_code \in SearchStatuses,
          limit \in SearchLimits :
          SearchLogsCall(start_time, end_time, method, status_code, limit)

SpecSearch == InitCtl /\ [][NextSearch]_vars

----------------------------------------------------------------------------
(* Specification SpecClean: the request log store with log writes that
   fail and cleanup_old_logs. *)

InitClean ==
    /\ RateLimiterNew(1, 1)
    /\ overflowChecks = FALSE
    /\ HistInit
    /\ CtlInit
    /\ DataInit
    /\ AuxInit
    /\ foreignKeys \in BOOLEAN

\* proxy_handler logs, at instant t, the response to the request it gave
\* the given id
LogResponseAt(id, t) ==
    /\ id \in 1..(nextId - 1)
    /\ \A i \in 1..Len(requests) :
           requests[i].id = id => requests[i].timestamp <= t
    /\ LET row == ResponseLog(id, 200, t)
       IN  responses' =
               LogResponse(responses, requests, row, TRUE, foreignKeys).rows
    /\ UNCHANGED <<rlVars, rlHist, ctlVars, auxVars, requests, foreignKeys,
                   nextId, now, pc, rq, metrics>>

\* A call of cleanup_old_logs, whose cutoff is the given instant
CleanupCall(cutoff) ==
    /\ LET res == CleanupOldLogs(requests, responses, cutoff, foreignKeys)
       IN  /\ requests' = res.requests
           /\ responses' = res.responses
    /\ UNCHANGED <<rlVars, rlHist, ctlVars, auxVars, foreignKeys, nextId, now,
                   pc, rq, metrics>>

NextClean ==
    \/ \E t \in Instants, dbOk \in BOOLEAN : LogRequestAt("GET", t, dbOk)
    \/ \E id \in 1..MaxSearchRows, t \in Instants : LogResponseAt(id, t)
    \/ \E cutoff \in Instants : CleanupCall(cutoff)

SpecClean == InitClean /\ [][NextClean]_vars

----------------------------------------------------------------------------
(* Specification SpecCfg: the configuration manager behind the three
   mutating endpoints, for a few patches and contents. *)

\* The patches: a valid one, and two that fail validation.
CfgUpdates ==
    {[target_url |-> [scheme |-> "https", host |-> "b"],
      timeout_secs |-> MaxTimeout, max_connections |-> 1],
     [target_url |-> [scheme |-> "http", host |-> "a"],
      timeout_secs |-> 1, max_connections |-> 1],
     [target_url |-> [scheme |-> "https", host |-> "a"],
      timeout_secs |-> 1, max_connections |-> 0]}

\* The contents: one with each PEM marker and one with none.
CfgContents == {1, 2, 3, 4}

NextCfg ==
    /\ ctlOps < MaxCfgOps
    /\ ControlPlane(CfgUpdates, CfgContents, UploadFailures, BOOLEAN)
    /\ UNCHANGED <<rlVars, rlHist, dataVars, auxVars>>

SpecCfg == InitCtl /\ [][NextCfg]_vars

----------------------------------------------------------------------------
(* Specification SpecDel: uploads, and delete_certificate called with any
   filename. *)

\* The filenames: a file of the directory, paths that leave it with "..",
\* an absolute path, the directory above and a path that does not exist.
DeleteNames ==
    {<<"client.crt">>, <<"..", "boot", "client.key">>,
     Cwd \o <<"boot", "client.crt">>, <<"..">>, <<"x", "..", "ca.crt">>,
     <<"..", "..", "etc", "passwd">>}

\* A call of ConfigManager::delete_certificate
DeleteCertificateCall(filename, rmOk) ==
    /\ LET res == DeleteCertificate(fs, fmode, filename, rmOk)
       IN  /\ fs' = res.fs
           /\ fmode' = res.fmode
    /\ UNCHANGED <<config, diskConfig, state, auditRows, ctlHist>>

NextDel ==
    /\ \/ /\ ctlOps < MaxCfgOps
          /\ \E kind \in CertificateTypes, c \in CfgContents,
                failAt \in UploadFailures, auditOk \in BOOLEAN :
                ApiCertificatesUpload(kind, "client.crt", c, failAt, auditOk)
       \/ \E filename \in DeleteNames, rmOk \in BOOLEAN :
             DeleteCertificateCall(filename, rmOk)
    /\ UNCHANGED <<rlVars, rlHist, dataVars, auxVars>>

SpecDel == InitCtl /\ [][NextDel]_vars

----------------------------------------------------------------------------
(* Specification SpecLock: update_config running beside get_current_config. *)

NextLock ==
    \/ \E u \in CfgUpdates : UpdateConfigLock(u)
    \/ UpdateConfigAssign
    \/ UpdateConfigValidate
    \/ \E diskOk \in BOOLEAN : UpdateConfigSave(diskOk)
    \/ GetCurrentConfig

SpecLock == InitCtl /\ [][NextLock]_vars

----------------------------------------------------------------------------
(* Specification SpecErr: handle_rejection alone, called once with one of
   the rejections the routes and the handlers can make. *)

\* enum ProxyError
ProxyErrors ==
    {"RateLimitExceeded", "RequestTooLarge", "ForwardError", "BodyReadError"}

ErrRejections ==
    {[known |-> {}, proxy |-> {}, app |-> {e}] : e \in AppErrors}
        \cup {[known |-> {}, proxy |-> {c}, app |-> {}] : c \in ProxyErrors}
        \cup {[known |-> k, proxy |-> {}, app |-> {}] :
                 k \in {{}, {"MethodNotAllowed"}, {"PayloadTooLarge"},
                        {"InvalidQuery"}}}

InitErr ==
    /\ RateLimiterNew(1, 1)
    /\ overflowChecks = FALSE
    /\ HistInit
    /\ CtlInit
    /\ DataInit
    /\ LockInit
    /\ rejection \in ErrRejections
    /\ answer = <<>>
    /\ found = <<>>
    /\ ExtInit
    /\ foreignKeys = FALSE

\* recover(handle_rejection)
Recover ==
    /\ answer = <<>>
    /\ answer' = <<HandleRejection(rejection)>>
    /\ UNCHANGED <<rlVars, rlHist, ctlVars, dataVars, lockVars, rejection,
                   found, extVars>>

NextErr == Recover

SpecErr == InitErr /\ [][NextErr]_vars

----------------------------------------------------------------------------
(* Specification SpecRL: the rate limiter alone. *)

InitRL ==
    /\ \E r \in 0..MaxRps, b \in 0..MaxBurst : RateLimiterNew(r, b)
    /\ overflowChecks \in BOOLEAN
    /\ HistInit
    /\ CtlInit
    /\ DataInit
    /\ AuxInit
    /\ foreignKeys = FALSE

\* Time passes: d more ticks since last_refill.
RLAdvance ==
    /\ \E d \in 1..MaxElapsed : rlElapsed' = Min(rlElapsed + d, MaxElapsed)
    /\ UNCHANGED <<rps, burst, tokens, overflowChecks, rlHist, ctlVars, auxVars, dataVars>>

\* A caller runs check_async.
RLCheck ==
    LET res == CheckAsync(tokens, rlElapsed, rps, burst, overflowChecks)
    IN  /\ tokens' = res.tokens
        /\ rlElapsed' = res.elapsed
        /\ HistAfter(res, rlElapsed)
        /\ UNCHANGED <<rps, burst, overflowChecks, load, ctlVars, auxVars, dataVars>>

NextRL == RLAdvance \/ RLCheck

SpecRL == InitRL /\ [][NextRL]_vars

----------------------------------------------------------------------------
(* Specification SpecGuard: concurrent calls of check_async, statement by
   statement, under the two locks of the bucket.  The calls run within an
   instant: no time passes, so that no call refills the bucket. *)

\* Locks that are granted to every caller.
GrantedAlways(guards, name) == TRUE

\* self.<name>.write() is granted when no task holds the guard.
Granted(guards, name) == guards[name] = 0

\* A task calls check_async.
CheckStart(t) ==
    /\ rlTasks[t].pc = "idle"
    /\ rlTasks' = [rlTasks EXCEPT ![t].pc = "tokens"]
    /\ UNCHANGED <<rlVars, rlGuards>>

\* let mut tokens = self.tokens.write().await
WriteTokens(t) ==
    /\ rlTasks[t].pc = "tokens"
    /\ Granted(rlGuards, "tokens")
    /\ rlGuards' = [rlGuards EXCEPT !.tokens = t]
    /\ rlTasks' = [rlTasks EXCEPT ![t].pc = "last_refill"]
    /\ UNCHANGED rlVars

\* let mut last_refill = self.last_refill.write().await
WriteLastRefill(t) ==
    /\ rlTasks[t].pc = "last_refill"
    /\ Granted(rlGuards, "last_refill")
    /\ rlGuards' = [rlGuards EXCEPT !.last_refill = t]
    /\ rlTasks' = [rlTasks EXCEPT ![t].pc = "refill"]
    /\ UNCHANGED rlVars

\* The task reads *last_refill and *tokens and computes the refill and the
\* decision.
CheckRead(t) ==
    /\ rlTasks[t].pc = "refill"
    /\ rlTasks' = [rlTasks EXCEPT
          ![t].pc = "take",
          ![t].read = <<CheckAsync(tokens, rlElapsed, rps, burst,
                                   overflowChecks)>>]
    /\ UNCHANGED <<rlVars, rlGuards>>

\* The task assigns *tokens and *last_refill and returns; its guards are
\* dropped.
CheckReturn(t) ==
    /\ rlTasks[t].pc = "take"
    /\ tokens' = rlTasks[t].read[1].tokens
    /\ rlElapsed' = rlTasks[t].read[1].elapsed
    /\ rlGuards' = [name \in {"tokens", "last_refill"} |->
                       IF rlGuards[name] = t THEN 0 ELSE rlGuards[name]]
    /\ rlTasks' = [rlTasks EXCEPT ![t].pc = "done", ![t].read = <<>>,
                                  ![t].result = rlTasks[t].read[1].result]
    /\ UNCHANGED <<rps, burst, overflowChecks>>

\* The steps a task takes once it has called check_async.
CheckStep(t) ==
    \/ WriteTokens(t)
    \/ WriteLastRefill(t)
    \/ CheckRead(t)
    \/ CheckReturn(t)

NextGuard ==
    /\ \E t \in 1..MaxCheckTasks : CheckStart(t) \/ CheckStep(t)
    /\ UNCHANGED <<rlHist, ctlVars, dataVars, lockVars, errVars, found, fetched,
                   auditTasks, auditLock, server>>

SpecGuard == InitRL /\ [][NextGuard]_vars

----------------------------------------------------------------------------
(* Specification SpecLoad: the rate limiter under sustained load. *)

\* Calls counted in an interval: one more than rps * t can reach.
MaxOffered == (MaxRps * MaxLoadTicks) \div TicksPerSec + 1

InitLoad ==
    /\ \E r \in 1..MaxRps, b \in 1..MaxBurst : RateLimiterNew(r, b)
    /\ overflowChecks = FALSE
    /\ HistInit
    /\ CtlInit
    /\ DataInit
    /\ AuxInit
    /\ foreignKeys = FALSE

\* A caller runs check_async.  The interval starts when a call leaves the
\* bucket empty with last_refill = now; the calls after it are counted.
LoadCheck ==
    LET res == CheckAsync(tokens, rlElapsed, rps, burst, overflowChecks)
    IN  /\ tokens' = res.tokens
        /\ rlElapsed' = res.elapsed
        /\ load' = IF load.open
                   THEN [load EXCEPT
                           !.offered = Min(@ + 1, MaxOffered),
                           !.admitted = IF res.result = "ok" THEN @ + 1 ELSE @,
                           !.called = TRUE]
                   ELSE IF res.tokens = 0 /\ res.elapsed = 0
                   THEN [NoLoad EXCEPT !.open = TRUE, !.called = TRUE]
                   ELSE load
        /\ UNCHANGED <<rps, burst, overflowChecks, lastResult, lastIdle,
                       runCalls, runValid, ctlVars, auxVars, dataVars>>

\* One tick passes.  Within the interval the load is sustained: at least one
\* call is offered in every tick.
LoadAdvance ==
    /\ load.open => (load.called /\ load.ticks < MaxLoadTicks)
    /\ rlElapsed' = Min(rlElapsed + 1, MaxElapsed)
    /\ load' = IF load.open
               THEN [load EXCEPT !.ticks = @ + 1, !.called = FALSE]
               ELSE load
    /\ UNCHANGED <<rps, burst, tokens, overflowChecks, lastResult, lastIdle,
                   runCalls, runValid, ctlVars, auxVars, dataVars>>

NextLoad == LoadAdvance \/ LoadCheck

SpecLoad == InitLoad /\ [][NextLoad]_vars

----------------------------------------------------------------------------
(* Control-plane claims, checked under SpecCtl *)

CountKind(rows, k) == Cardinality({i \in 1..Len(rows) : rows[i] = k})

\* C1 as stated: a config update that is answered with an error (validation
\* or disk write failed) leaves the in-memory snapshot as it was before the
\* call.
C1_Original ==
    [][(ctlOps' = ctlOps + 1 /\ lastOp'.kind = "config_update"
            /\ lastOp'.reply # "success")
        => config' = config]_vars

\* C7 as stated: the audit rows of each kind are as many as the requests of
\* that kind answered with success.
C7_Original ==
    \A k \in EventKinds : CountKind(auditRows, k) = okCount[k]

\* C8 as stated: a control-plane mutation is answered with success only when
\* its audit row has been written.
C8_Original ==
    lastOp.reply = "success" => lastOp.audited

----------------------------------------------------------------------------
(* Pipeline claims: C2 and C3 are checked under SpecLog, the others under
   Spec *)

CountRows(rows, id) == Cardinality({i \in 1..Len(rows) : rows[i].id = id})

\* A request that the rate limiter admitted, that passed the size gate and
\* was given an id, and whose handler has returned.
Returned(r) == pc[r] = "done" /\ rq[r].admitted /\ rq[r].id # 0

\* C2 as stated: once proxy_handler has returned, the store holds exactly one
\* requests row with the id of the request.
C2_Original ==
    \A r \in Reqs : Returned(r) => CountRows(requests, rq[r].id) = 1

\* C2 as amended: an admitted request has exactly one requests row with its id
\* when it passed the size gate and its log_request insert succeeded, and no
\* row when the size gate rejected it or the insert failed.
C2_RequestRow ==
    \A r \in Reqs :
        (pc[r] = "done" /\ rq[r].admitted) =>
            /\ (rq[r].id # 0 /\ rq[r].reqLogged
                    => CountRows(requests, rq[r].id) = 1)
            /\ (rq[r].id # 0 /\ ~rq[r].reqLogged
                    => CountRows(requests, rq[r].id) = 0)
            /\ (rq[r].id = 0 => rq[r].status = 413)
            /\ Len(requests) = Cardinality({q \in Reqs : rq[q].reqLogged})

C2_Witness ==
    \E r, q \in Reqs :
        /\ Returned(r) /\ rq[r].reqLogged
        /\ CountRows(requests, rq[r].id) = 1
        /\ Returned(q) /\ ~rq[q].reqLogged
        /\ CountRows(requests, rq[q].id) = 0

\* C3 as stated: once proxy_handler has returned, the store holds exactly one
\* responses row with the id of the request.
C3_Original ==
    \A r \in Reqs : Returned(r) => CountRows(responses, rq[r].id) = 1

\* C3 as amended: a request that reached the forwarder has, once its handler
\* has returned, exactly one responses row when its log_response insert
\* succeeded and none when it failed; the row holds the upstream status, 500
\* after a network error and 504 after a timeout.
C3_ResponseRow ==
    \A r \in Reqs :
        Returned(r) =>
            /\ CountRows(responses, rq[r].id) = IF rq[r].respLogged THEN 1 ELSE 0
            /\ \A i \in 1..Len(responses) :
                  responses[i].id = rq[r].id =>
                      responses[i].status_code =
                          CASE rq[r].outcome = "error"    -> 500
                            [] rq[r].outcome = "timeout"  -> 504
                            [] rq[r].outcome = "response" -> rq[r].upstream

C3_Witness ==
    \E r, q \in Reqs :
        /\ Returned(r) /\ rq[r].outcome = "error" /\ rq[r].respLogged
        /\ CountRows(responses, rq[r].id) = 1
        /\ Returned(q) /\ rq[q].outcome = "timeout" /\ rq[q].respLogged
        /\ CountRows(responses, rq[q].id) = 1

\* C4 as stated: the upstream exchange of a request is over once
\* target.timeout_secs has elapsed, whatever stage stalls: no request is
\* still waiting for the upstream after more than the timeout.
C4_Original ==
    \A r \in Reqs :
        pc[r] \in UpstreamStages => rq[r].upElapsed <= rq[r].timeout

\* The component of a connector's material that a certificate kind sets.
MaterialOf(m, kind) ==
    CASE kind = "client" -> m.cert
      [] kind = "key"    -> m.key
      [] kind = "ca"     -> m.ca

\* C5 as stated: a request that starts after a successful upload_certificate
\* performs its handshake with a connector built from the uploaded material.
C5_Original ==
    \A r \in Reqs :
        (rq[r].conn # <<>> /\ rq[r].expUpload # <<>>) =>
            MaterialOf(rq[r].conn[1], rq[r].expUpload[1].kind)
                = rq[r].expUpload[1].content

\* C6 as stated: a request that starts after a successful update_config is
\* sent to the new target URL and bounded by the new timeout.
C6_Original ==
    \A r \in Reqs :
        (rq[r].id # 0 /\ rq[r].expUpdate # <<>>) =>
            /\ rq[r].url = rq[r].expUpdate[1].target_url
            /\ rq[r].timeout = rq[r].expUpdate[1].timeout_secs

----------------------------------------------------------------------------
(* Rate limiter claims, checked under SpecRL *)

\* C9: starting from a full bucket, with no token refilled between the calls,
\* the first burst calls of check_async are admitted and call burst+1 is
\* rejected.
C9_BurstThenReject ==
    (runValid /\ runCalls >= 1) =>
        /\ (runCalls <= burst => lastResult = "ok")
        /\ (runCalls = burst + 1 => lastResult = "rejected")
        /\ tokens = burst - Min(runCalls, burst)

C9_Witness ==
    /\ runValid
    /\ burst >= 2
    /\ runCalls = burst + 1
    /\ lastResult = "rejected"

\* C10 as stated: after an idle time t >= burst / rps, however long, the call
\* finds the bucket refilled to exactly burst tokens and is admitted.
C10_Original ==
    (lastIdle /\ burst >= 1) => (lastResult = "ok" /\ tokens = burst - 1)

\* C11 as stated: over an interval of length t that starts with an empty
\* bucket and in which more than rps * t calls are offered, the calls admitted
\* are at least floor(rps * t) - 1 and at most floor(rps * t) + 1.  (The
\* interval is taken to end with a call.)
C11_Original ==
    (load.open /\ load.called
        /\ load.offered * TicksPerSec > rps * load.ticks) =>
        /\ load.admitted >= (rps * load.ticks) \div TicksPerSec - 1
        /\ load.admitted <= (rps * load.ticks) \div TicksPerSec + 1

----------------------------------------------------------------------------
(* Routing claims, checked under SpecRoute *)

\* The path is /health, /metrics or lies under /ui/.
ReservedPath(path) ==
    \/ path \in {<<"health">>, <<"metrics">>}
    \/ (Len(path) >= 2 /\ path[1] = "ui")

\* C12 as stated: a request with a reserved path that matches no
\* control-plane route is answered with 404 and is not handed to the
\* forwarder: it takes no token, gets no request row and no upstream
\* connection.
C12_Original ==
    \A r \in Reqs :
        ReservedPath(rq[r].req.path) =>
            /\ ~rq[r].admitted
            /\ rq[r].id = 0
            /\ rq[r].conn = <<>>
            /\ (pc[r] = "done" => rq[r].status = 404)

----------------------------------------------------------------------------
(* Header claims, checked under SpecHdr *)

\* C13 as stated: every inbound header value whose name is not hop-by-hop is
\* on the outbound request, the second and later values of a repeated name
\* included.
C13_Original ==
    \A r \in Reqs :
        rq[r].id # 0 =>
            \A i \in 1..Len(rq[r].req.headers) :
                LET line == rq[r].req.headers[i]
                IN  ToLowercase(line.name) \notin HopByHopHeaders =>
                        line.value \in HeaderValues(rq[r].headers,
                                                    ToLowercase(line.name))

\* C14: whatever the inbound header lines and their letter case, the outbound
\* request carries no header whose name is in the hop-by-hop set.
C14_NoHopByHop ==
    \A r \in Reqs :
        \A i \in 1..Len(rq[r].headers) :
            ToLowercase(rq[r].headers[i].name) \notin HopByHopHeaders

C14_Witness ==
    \E r \in Reqs :
        /\ rq[r].id # 0
        /\ Len(rq[r].req.headers) = 2
        /\ rq[r].req.headers[1].name = "TE"
        /\ rq[r].req.headers[2].name = "Accept"
        /\ HeaderValues(rq[r].headers, "accept") # {}
        /\ HeaderValues(rq[r].headers, "te") = {}

\* C15 as stated: every X-Request-ID value on the outbound request is the
\* UUID the proxy assigned to the request, also when the inbound request
\* carries an X-Request-ID of its own.
C15_Original ==
    \A r \in Reqs :
        rq[r].id # 0 =>
            HeaderValues(rq[r].headers, "x-request-id")
                = {UuidString(rq[r].id)}

----------------------------------------------------------------------------
(* Error-path claims, checked under SpecRoute (C16 to C18) and under SpecLog
   (C19), and the ordering claim, checked under SpecLog *)

\* C16 as stated: a step in which check_async rejects a request answers it
\* with 429 and RATE_LIMIT_EXCEEDED, adds exactly one to errors_total and to
\* request_errors, and writes no requests or responses row; the request has
\* no upstream connection.
C16_Original ==
    [][\A r \in Reqs :
          (pc[r] = "idle" /\ rq'[r].outcome = "rejected") =>
              /\ pc'[r] = "done"
              /\ rq'[r].status = 429
              /\ rq'[r].code = "RATE_LIMIT_EXCEEDED"
              /\ metrics'.errors_total = metrics.errors_total + 1
              /\ metrics'.request_errors = metrics.request_errors + 1
              /\ requests' = requests
              /\ responses' = responses
              /\ rq'[r].conn = <<>>]_vars

\* C17 as stated, for the requests that reach the size gate: a request with
\* a body larger than the limit receives 413 and REQUEST_TOO_LARGE with no
\* request row and no upstream connection, and a body of exactly the limit
\* is accepted.
C17_Original ==
    \A r \in Reqs :
        (pc[r] # "idle" /\ rq[r].admitted) =>
            /\ rq[r].req.bodyLen > SizeLimit =>
                  /\ rq[r].status = 413
                  /\ rq[r].code = "REQUEST_TOO_LARGE"
                  /\ rq[r].id = 0
                  /\ ~rq[r].reqLogged
                  /\ rq[r].conn = <<>>
            /\ rq[r].req.bodyLen = SizeLimit =>
                  /\ rq[r].id # 0
                  /\ rq[r].outcome # "too_large"

\* C18 as stated, for the requests whose log_response insert succeeds: the
\* step that answers a request whose upstream exchange failed with a network
\* error replies 502, writes the responses row with status_code 500, adds
\* exactly one to errors_total and to request_errors, and leaves the other
\* handlers and the rate limiter as they were.
C18_Original ==
    [][\A r \in Reqs :
          (pc[r] = "respond" /\ rq[r].outcome = "error" /\ pc'[r] = "done"
               /\ rq'[r].respLogged) =>
              /\ rq'[r].status = 502
              /\ responses' =
                    Append(responses,
                           [id |-> rq[r].id, status_code |-> 500,
                            timestamp |-> now])
              /\ metrics'.errors_total = metrics.errors_total + 1
              /\ metrics'.request_errors = metrics.request_errors + 1
              /\ \A q \in Reqs \ {r} : pc'[q] = pc[q] /\ rq'[q] = rq[q]
              /\ tokens' = tokens]_vars

\* C19 as stated: an upstream timeout adds one to errors_total and to
\* timeout_errors, and the 504 response has an empty body.
C19_Original ==
    \A r \in Reqs :
        (pc[r] = "done" /\ rq[r].outcome = "timeout") =>
            /\ rq[r].status = 504
            /\ rq[r].body = ""
            /\ metrics.timeout_errors >= 1
            /\ metrics.errors_total >= 1

\* C20: while the upstream exchange of a request is under way, and until its
\* log_response, its log_request has completed (the row is there unless the
\* insert failed) and it has no responses row; a connection is opened only
\* for a request whose log_request has completed; and the responses row of a
\* request is stamped no earlier than its requests row.
C20_LogOrder ==
    /\ \A r \in Reqs :
          /\ pc[r] \in UpstreamStages \cup {"respond"} =>
                /\ rq[r].id # 0
                /\ CountRows(requests, rq[r].id)
                      = IF rq[r].reqLogged THEN 1 ELSE 0
                /\ CountRows(responses, rq[r].id) = 0
          /\ rq[r].conn # <<>> => rq[r].id # 0
          /\ pc[r] = "idle" => rq[r].id = 0
    /\ \A i \in 1..Len(requests), j \in 1..Len(responses) :
          requests[i].id = responses[j].id =>
              responses[j].timestamp >= requests[i].timestamp

\* The log writes of two requests in both orders: the rows of the second
\* request are written between those of the first, and its response row
\* comes first.
C20_Witness ==
    /\ Len(requests) = 2
    /\ Len(responses) = 2
    /\ requests[1].id = responses[2].id
    /\ requests[2].id = responses[1].id
    /\ responses[2].timestamp > requests[1].timestamp

----------------------------------------------------------------------------
(* Configuration manager claims, checked under SpecCfg *)

\* C21: the step in which update_config(u) succeeds leaves a snapshot with
\* the three fields of u and every other field as it was, and the TOML file
\* on disk holds that snapshot.
C21_UpdateConfig ==
    [][okCount'["config_update"] = okCount["config_update"] + 1 =>
          LET u == lastUpdate'[1]
          IN  /\ config' = [config EXCEPT !.base_url = u.target_url,
                                          !.timeout_secs = u.timeout_secs,
                                          !.max_connections = u.max_connections]
              /\ diskConfig' # <<>>
              /\ FromToml(diskConfig'[1]) = config']_vars

\* A successful update, made after an upload that failed, has changed the
\* target and the timeout and left the certificate paths as they were.
C21_Witness ==
    /\ lastOp.kind = "config_update"
    /\ lastOp.reply = "success"
    /\ ctlOps = 2
    /\ config.base_url.host = "b"
    /\ config.timeout_secs = MaxTimeout
    /\ config.client_cert_path = BootCert
    /\ config.ca_cert_path = "none"
    /\ diskConfig # <<>>
    /\ FromToml(diskConfig[1]) = config

\* C23 as stated, looked at after an upload or a delete: the snapshot in
\* memory satisfies the validation rules.
C23_Original ==
    lastOp.kind \in {"certificate_upload", "certificate_delete"} =>
        Validate(config, fs)

\* The content carries the PEM marker of the kind of the upload.
CarriesMarker(kind, c) ==
    \/ kind \in {"client", "ca"} /\ MarkerOf(c) = "CERTIFICATE"
    \/ kind = "key" /\ MarkerOf(c) \in {"PRIVATE KEY", "RSA PRIVATE KEY"}

\* C24: an upload whose content lacks the PEM marker of its kind is answered
\* with the certificate-invalid error, creates or changes no file, leaves the
\* snapshot as it was and adds no audit row.
C24_InvalidContent ==
    [][\A kind \in CertificateTypes, c \in CfgContents :
          (/\ ~CarriesMarker(kind, c)
           /\ \E filename \in Filenames, failAt \in UploadFailures,
                 auditOk \in BOOLEAN :
                 ApiCertificatesUpload(kind, filename, c, failAt, auditOk))
          => /\ lastOp'.reply = "CertificateInvalid"
             /\ UNCHANGED <<fs, fmode, config, diskConfig, auditRows>>]_vars

\* An upload has been refused for its content, after one that had succeeded.
C24_Witness ==
    /\ lastOp.kind = "certificate_upload"
    /\ lastOp.reply = "CertificateInvalid"
    /\ okCount["certificate_upload"] = 1
    /\ Len(auditRows) = 1

\* C25: a successful upload of kind k leaves the canonical file of k with
\* the uploaded bytes, mode 0600 for a key and 0644 for client and ca,
\* whatever filename came with the upload, and no other file created or
\* changed.
C25_CanonicalFile ==
    [][\A kind \in CertificateTypes, filename \in Filenames,
          c \in CfgContents, failAt \in UploadFailures, auditOk \in BOOLEAN :
          (/\ lastOp'.reply = "success"
           /\ ApiCertificatesUpload(kind, filename, c, failAt, auditOk))
          => LET path == CASE kind = "client" -> "certs/client.crt"
                           [] kind = "key"    -> "certs/client.key"
                           [] kind = "ca"     -> "certs/ca.crt"
             IN  /\ fs'[path] = c
                 /\ fmode'[path] = IF kind = "key" THEN "0600" ELSE "0644"
                 /\ \A p \in Paths \ {path} :
                       fs'[p] = fs[p] /\ fmode'[p] = fmode[p]]_vars

\* A key has been uploaded under the filename ca.crt: client.key holds its
\* bytes with mode 0600 and there is no ca.crt.
C25_Witness ==
    /\ lastOp.kind = "certificate_upload"
    /\ lastOp.reply = "success"
    /\ lastUpload = <<[kind |-> "key", content |-> 3]>>
    /\ fs["certs/client.key"] = 3
    /\ fmode["certs/client.key"] = "0600"
    /\ fs["certs/ca.crt"] = 0

\* C26: deleting a filename that is absent succeeds and leaves the directory
\* as it was; deleting a file that is present removes that file and no
\* other.
C26_Delete ==
    [][\A name \in CertNames, rmOk \in BOOLEAN, auditOk \in BOOLEAN :
          ApiCertificatesDelete(name, rmOk, auditOk)
          => LET path == CertsDirJoin(name)
             IN  /\ fs[path] = 0 =>
                       lastOp'.reply = "success" /\ UNCHANGED <<fs, fmode>>
                 /\ (fs[path] # 0 /\ lastOp'.reply = "success") =>
                       /\ fs'[path] = 0
                       /\ \A p \in Paths \ {path} :
                             fs'[p] = fs[p] /\ fmode'[p] = fmode[p]]_vars

\* An uploaded file has been deleted, and the files the proxy started with
\* are still there.
C26_Witness ==
    /\ lastOp.kind = "certificate_delete"
    /\ lastOp.reply = "success"
    /\ okCount["certificate_upload"] = 1
    /\ fs["certs/client.crt"] = 0
    /\ config.client_cert_path = "certs/client.crt"
    /\ fs[BootCert] # 0
    /\ fs[BootKey] # 0

\* C29 as stated, for the control plane: an error response, one with a
\* status of 400 or more, carries a request id.
C29_Original ==
    lastOp.response.status >= 400 => lastOp.response.request_id # <<>>

----------------------------------------------------------------------------
(* The search of the request log, checked under SpecSearch *)

\* C30: search_logs called without a status filter returns the request rows
\* in the time range that match the method filter, each once and paired
\* with its response row or with None when it has none, newest first, and
\* all of them or, beyond the limit, the limit newest of them.
C30_SearchLogs ==
    [][(found = <<>> /\ found' # <<>> /\ found'[1].status_code = <<>>) =>
          LET call == found'[1]
              rows == call.rows
              matching ==
                  {i \in 1..Len(requests) :
                      /\ call.start_time # <<>> =>
                             requests[i].timestamp >= call.start_time[1]
                      /\ call.end_time # <<>> =>
                             requests[i].timestamp <= call.end_time[1]
                      /\ call.method # <<>> =>
                             requests[i].method = call.method[1]}
              returned ==
                  {i \in matching :
                      \E k \in 1..Len(rows) : rows[k].request = requests[i]}
          IN  /\ \A k \in 1..Len(rows) :
                    /\ \E i \in matching : rows[k].request = requests[i]
                    /\ \A j \in 1..Len(rows) :
                          rows[j].request.id = rows[k].request.id => j = k
                    /\ IF HasId(responses, rows[k].request.id)
                       THEN /\ rows[k].response # <<>>
                            /\ \E m \in 1..Len(responses) :
                                  rows[k].response[1] = responses[m]
                            /\ rows[k].response[1].id = rows[k].request.id
                       ELSE rows[k].response = <<>>
              /\ \A j, k \in 1..Len(rows) :
                    j < k => rows[j].request.timestamp
                                 >= rows[k].request.timestamp
              /\ IF call.limit # <<>> /\ call.limit[1] < Cardinality(matching)
                 THEN Len(rows) = call.limit[1]
                 ELSE Len(rows) = Cardinality(matching)
              /\ \A i \in matching \ returned, k \in 1..Len(rows) :
                    requests[i].timestamp <= rows[k].request.timestamp]_vars

\* A search with a method filter and a limit of one has returned the newer
\* of two matching requests, which has no response row, and left out the
\* older one, which has one.
C30_Witness ==
    /\ found # <<>>
    /\ found[1].status_code = <<>>
    /\ found[1].method = <<"GET">>
    /\ found[1].limit = <<1>>
    /\ Len(requests) = 2
    /\ Len(responses) = 1
    /\ Len(found[1].rows) = 1
    /\ found[1].rows[1].response = <<>>
    /\ found[1].rows[1].request.timestamp = 1000
    /\ \E i \in 1..2 : requests[i].method = "GET" /\ requests[i].timestamp = 500

----------------------------------------------------------------------------
(* The target URL, checked under SpecUri *)

\* C27 as stated: a request to a path that is not reserved, which the rate
\* limiter and the size gate let pass, is sent to the base URL of the
\* target followed by the path, and by ? and the query exactly when the
\* inbound request has a query string (one that is not empty).
C27_Original ==
    \A r \in Reqs :
        (/\ pc[r] # "idle"
         /\ RouteOf(rq[r].req.method, rq[r].req.path) = "proxy_handler"
         /\ rq[r].outcome \notin {"rejected", "too_large", "panic"})
        => rq[r].uri = [base |-> state.target_url, path |-> rq[r].req.path,
                        query |-> IF rq[r].req.query = <<"">> THEN <<>>
                                  ELSE rq[r].req.query]

----------------------------------------------------------------------------
(* Error response claims, checked under SpecErr *)

\* The status the taxonomy gives to the error kinds C28 names, by the code
\* of the error response.
TaxonomyStatus(code) ==
    CASE code = "CONFIG_VALIDATION_FAILED" -> 400
      [] code = "CONFIG_UPDATE_FAILED"     -> 500
      [] code = "CERTIFICATE_INVALID"      -> 400
      [] code = "CERTIFICATE_NOT_FOUND"    -> 404
      [] code = "FILE_TOO_LARGE"           -> 413
      [] code = "REQUEST_TOO_LARGE"        -> 413
      [] code = "CONNECTION_FAILED"        -> 502
      [] code = "TIMEOUT"                  -> 504
      [] code = "RATE_LIMIT_EXCEEDED"      -> 429
      [] code = "DATABASE_ERROR"           -> 500
      [] code = "AUDIT_LOG_ERROR"          -> 500
      [] code = "VALIDATION_ERROR"         -> 400
      [] code = "NOT_FOUND"                -> 404
      [] code = "INTERNAL_ERROR"           -> 500
      [] OTHER                             -> 0

\* The variant of AppError under whose heading enum ErrorCode lists a code.
CategoryOf(code) ==
    CASE code \in {"ConfigValidationFailed", "ConfigUpdateFailed",
                   "ConfigLoadFailed"} -> "Config"
      [] code \in {"CertificateUploadFailed", "CertificateDeleteFailed",
                   "CertificateNotFound", "CertificateInvalid",
                   "CertificateParseError"} -> "Certificate"
      [] code \in {"FileNotFound", "FilePermissionDenied", "FileSystemError",
                   "FileTooLarge"} -> "FileSystem"
      [] code \in {"ConnectionFailed", "Timeout", "RateLimitExceeded",
                   "RequestTooLarge"} -> "Network"
      [] code \in {"DatabaseError", "AuditLogError"} -> "Database"
      [] code \in {"ValidationError", "InvalidInput",
                   "MissingRequiredField"} -> "Validation"
      [] code \in {"InternalError", "SerializationError",
                   "DeserializationError"} -> "Internal"
      [] OTHER -> "none"

\* C28 as stated: the response to an error of a kind the taxonomy names has
\* the status of the taxonomy, for a rejection of the routes or of
\* ProxyError and for an AppError made by the helper of its own category.
C28_Original ==
    (/\ answer # <<>>
     /\ TaxonomyStatus(answer[1].code) # 0
     /\ \A e \in rejection.app : CategoryOf(e.code) = e.variant)
    => answer[1].status = TaxonomyStatus(answer[1].code)

----------------------------------------------------------------------------
(* The snapshot under concurrent readers, checked under SpecLock *)

\* The snapshot with the three fields of patch u.
Patched(cfg, u) ==
    [cfg EXCEPT !.base_url = u.target_url,
                !.timeout_secs = u.timeout_secs,
                !.max_connections = u.max_connections]

\* C22: what get_current_config returns is the complete snapshot from before
\* the last update_config that started, or the complete snapshot from after
\* it, never one with only some of the three fields applied.
C22_Atomic ==
    [][seen' # seen =>
          seen'[1] \in IF updTask.u = <<>> THEN {BootConfig}
                       ELSE {updTask.before,
                             Patched(updTask.before, updTask.u[1])}]_vars

\* An update has applied only the first of its fields to the snapshot in
\* memory, and the reader holds the snapshot from before it.
C22_Witness ==
    /\ updTask.pc = "timeout_secs"
    /\ seen = <<updTask.before>>
    /\ config # updTask.before
    /\ config # Patched(updTask.before, updTask.u[1])

----------------------------------------------------------------------------
(* C31 *)

\* The rows a call of get_audit_logs is to return: the ids of the rows of
\* the given kind (of every row when no kind is given), newest first,
\* without the first offset of them and at most limit of them.
RECURSIVE OfKind(_, _, _)
OfKind(rows, n, event_type) ==
    IF n = 0 THEN <<>>
    ELSE (IF event_type = <<>> \/ rows[n] = event_type[1] THEN <<n>> ELSE <<>>)
             \o OfKind(rows, n - 1, event_type)

ExpectedLogs(rows, limit, offset, event_type) ==
    LET all == OfKind(rows, Len(rows), event_type)
        from == IF offset = <<>> THEN 1 ELSE offset[1] + 1
        upto == IF limit = <<>> THEN Len(all)
                ELSE Min(Len(all), from - 1 + limit[1])
    IN  SubSeq(all, from, upto)

\* C31: get_audit_logs(limit, offset, kind) returns exactly the audit rows
\* of the kind (all rows when no kind is given), newest first, skipping the
\* first offset rows and returning at most limit rows, for every
\* combination of present and absent arguments.
C31_Original ==
    fetched # <<>> =>
        /\ fetched[1].result = "ok"
        /\ fetched[1].logs = ExpectedLogs(auditRows, fetched[1].limit,
                                          fetched[1].offset,
                                          fetched[1].event_type)

----------------------------------------------------------------------------
(* C32 *)

\* The calls of log_event that returned, and those that returned Ok with
\* the given event.
Returned32 == {t \in 1..MaxAuditTasks : auditTasks[t].pc = "done"}
OkCalls(kind) ==
    {t \in Returned32 : auditTasks[t].result = "ok"
                           /\ auditTasks[t].event_type = kind}

----------------------------------------------------------------------------
(* C33 *)

\* The requests that passed the rate limiter and the size gate and that
\* proxy_handler has answered.
Answered == {r \in Reqs : pc[r] = "done" /\ rq[r].id # 0}

\* C33: a request whose log_request or log_response failed is still
\* forwarded, and the client receives the status it would have received
\* had the write succeeded: the upstream response, 504 after a send timeout
\* or 502 after a network error.
C33_LogFailure ==
    \A r \in Answered :
        /\ rq[r].outcome \in {"response", "timeout", "error"}
        /\ rq[r].outcome = "response" =>
               rq[r].upstream \in UpstreamStatuses /\ rq[r].status = rq[r].upstream
        /\ rq[r].outcome = "timeout" => rq[r].status = 504
        /\ rq[r].outcome = "error" => rq[r].status = 502

\* A request neither of whose log writes succeeded has relayed the 200 of
\* the upstream.
C33_Witness ==
    \E r \in Answered :
        /\ ~rq[r].reqLogged /\ ~rq[r].respLogged
        /\ requests = <<>> /\ responses = <<>>
        /\ rq[r].outcome = "response" /\ rq[r].status = 200

----------------------------------------------------------------------------
(* C34 *)

\* C34: no byte of a request is written to the upstream connection before
\* the TLS handshake with the client certificate of the handler has
\* completed: the bytes go to the TLS stream; when the TCP connect or the
\* handshake fails, nothing has been written and the request ends with an
\* error response.
C34_NoPlaintext ==
    [][\A r \in Reqs :
          /\ rq'[r].written # "none" =>
                 /\ rq'[r].written = "tls"
                 /\ rq'[r].layer = "tls"
                 /\ rq'[r].conn = <<state.tls_client>>
          /\ (pc[r] \in {"connect", "tls"} /\ pc'[r] = "respond") =>
                 /\ rq[r].written = "none"
                 /\ rq'[r].written = "none"
                 /\ rq'[r].outcome = "error"
          /\ (pc[r] = "respond" /\ rq[r].outcome = "error"
                  /\ pc'[r] # "respond") =>
                 /\ pc'[r] = "done"
                 /\ rq'[r].status = 502]_vars

\* The request is being sent, over the TLS stream.
C34_Witness ==
    /\ pc[1] = "send"
    /\ rq[1].written = "tls"
    /\ rq[1].conn = <<state.tls_client>>

----------------------------------------------------------------------------
(* C35 *)

\* C35 as stated: after the shutdown signal the listener accepts no new
\* connection, and the server has exited when a grace period has passed,
\* even when a request in flight never completes (the grace period is
\* taken as long as the model counts).
C35_Original ==
    [][/\ server.phase # "serving" =>
             \A c \in 1..MaxOpen :
                 server.conns[c] = "closed" => server'.conns[c] = "closed"
       /\ (server'.phase # "serving" /\ server'.sinceSignal >= MaxGrace) =>
             server'.phase = "exited"]_vars

----------------------------------------------------------------------------
(* C36, C37 *)

\* No request is inside proxy_handler.
NoneInside == \A r \in Reqs : pc[r] \in {"idle", "done"}

\* C36 as stated: whenever no request is inside proxy_handler, the gauges
\* requests_in_progress and active_connections are both 0.
C36_Original ==
    NoneInside =>
        /\ metrics.requests_in_progress = 0
        /\ metrics.active_connections = 0

\* C37 as stated: after all requests have completed, responses_total equals
\* the number of requests that passed the rate limiter and the size gate,
\* those that ended in a 502 or a 504 included.
C37_Original ==
    NoneInside => metrics.responses_total = Cardinality(Answered)

----------------------------------------------------------------------------
(* C38 *)

\* The calls of check_async that have returned, and those admitted.
Checked == {t \in 1..MaxCheckTasks : rlTasks[t].pc = "done"}
Admitted == {t \in Checked : rlTasks[t].result = "ok"}

\* The calls that have started and not returned.
Checking == {t \in 1..MaxCheckTasks : rlTasks[t].pc \notin {"idle", "done"}}

\* C38: when n calls of check_async run concurrently against a bucket
\* holding k tokens and no refill occurs, the token count never goes below
\* 0: it is k less the calls admitted so far, of which there are at most k;
\* when the n calls have returned, exactly min(n, k) were admitted; and
\* whenever a call has not returned, one of the running calls can take a
\* step: no interleaving deadlocks on the locks of tokens and last_refill.
C38_Concurrent ==
    /\ Cardinality(Admitted) <= burst
    /\ tokens = burst - Cardinality(Admitted)
    /\ Checked = 1..MaxCheckTasks =>
           Cardinality(Admitted) = Min(MaxCheckTasks, burst)
    /\ Checking # {} => \E t \in Checking : ENABLED CheckStep(t)

\* All calls have returned, after a bucket of one token: one was admitted
\* and the others were rejected.
C38_Witness ==
    /\ Checked = 1..MaxCheckTasks
    /\ burst = 1
    /\ tokens = 0
    /\ Cardinality(Admitted) = 1
    /\ \E t \in Checked : rlTasks[t].result = "rejected"

----------------------------------------------------------------------------
(* C39 *)

\* C39 as stated: in every state of the request log store, also after
\* cleanup_old_logs and after a request whose log_request failed, every
\* responses row has a requests row with the same id.
C39_Original ==
    \A i \in 1..Len(responses) : HasId(requests, responses[i].id)

----------------------------------------------------------------------------
(* C40 *)

\* C40 as stated: for every filename argument, also one with ".."
\* components or an absolute path, delete_certificate removes no file
\* outside the certificates directory: the certificate and the key the
\* proxy was started with, which no other operation of SpecDel touches,
\* are still there.
C40_Original ==
    \A f \in {BootCert, BootKey} : fs[f] = BootFiles[f]

====
